---- MODULE Spec2Model ----
(***************************************************************************)
(* next-chatgpt-apps: the URL Synchronizer (UrlController), the Global     *)
(* State Bridge (hooks) and the Bootstrap Interposer (ChatGPTBootstrap).   *)
(*                                                                         *)
(* The specifications share one set of variables:                         *)
(*   SpecUrl     UrlController between the host, the router and the user   *)
(*   SpecUrlFair SpecUrl with the router committing what it accepted       *)
(*   SpecBridge  useOpenAiGlobal consumers and the host's events           *)
(*   SpecWidget  a component using useWidgetState and the host             *)
(*   SpecBoot    ChatGPTBootstrap instances patching browser primitives    *)
(*   SpecGuard   the attribute guard of ChatGPTBootstrap and the document  *)
(*   SpecPure    the functions without state, applied to drawn inputs      *)
(* Each one keeps the variables of the others at their idle values.        *)
(***************************************************************************)
EXTENDS Integers, Sequences, FiniteSets, TLC

(* ----------------------------- bounds --------------------------------- *)
\* longest query string (number of key=value pairs) the router can hold
MaxParams == 1

(* ------------------------- JavaScript values --------------------------- *)
Undefined == "undefined"
Null == "null"

(* ----------------------------------------------------------------------- *)
(* URL strings.  A URL string pathname + "?" + query is kept as its         *)
(* pathname and the ordered list of key=value pairs of its query; the "?"  *)
(* is present exactly when the list is not empty, as in the code           *)
(* (queryString ? `?${queryString}` : '').  A null ref is its own value.   *)
(* ----------------------------------------------------------------------- *)
Paths == {"/a", "/b"}
QKeys == {"x"}
QVals == {"1"}

RECURSIVE SeqsUpTo(_, _)
SeqsUpTo(S, n) ==
  IF n = 0 THEN {<<>>}
  ELSE LET shorter == SeqsUpTo(S, n - 1)
       IN shorter \cup {Append(s, e) : s \in {t \in shorter : Len(t) = n - 1}, e \in S}

Pairs == {<<k, v>> : k \in QKeys, v \in QVals}
Queries == SeqsUpTo(Pairs, MaxParams)

UrlString(p, q) == [isNull |-> FALSE, pathname |-> p, search |-> q]
NullRef == [isNull |-> TRUE, pathname |-> "", search |-> <<>>]
AppUrls == {UrlString(p, q) : p \in Paths, q \in Queries}

(* ------------------------- URLSearchParams ----------------------------- *)
\* params.append(key, v)
ParamsAppend(params, key, v) == Append(params, <<key, v>>)

RECURSIVE DropKey(_, _)
DropKey(params, key) ==
  IF params = <<>> THEN <<>>
  ELSE IF Head(params)[1] = key THEN DropKey(Tail(params), key)
       ELSE <<Head(params)>> \o DropKey(Tail(params), key)

\* params.set(key, v): the first pair named key takes v, the others go
RECURSIVE ParamsSet(_, _, _)
ParamsSet(params, key, v) ==
  IF params = <<>> THEN <<<<key, v>>>>
  ELSE IF Head(params)[1] = key THEN <<<<key, v>>>> \o DropKey(Tail(params), key)
       ELSE <<Head(params)>> \o ParamsSet(Tail(params), key, v)

RECURSIVE AppendAll(_, _, _)
AppendAll(params, key, vs) ==
  IF vs = <<>> THEN params
  ELSE AppendAll(ParamsAppend(params, key, Head(vs)), key, Tail(vs))

(* ----------------------------------------------------------------------- *)
(* UrlData.searchParams: a JavaScript object, kept as the ordered list of  *)
(* its entries <<key, value>>; a value is a string (isArray FALSE, one     *)
(* item) or an array of strings (isArray TRUE).                            *)
(* ----------------------------------------------------------------------- *)
StrValue(v) == [isArray |-> FALSE, items |-> <<v>>]
ArrValue(vs) == [isArray |-> TRUE, items |-> vs]

\* Object.entries(urlData.searchParams).forEach(...)  (record to query string)
RECURSIVE RecordToParams(_, _)
RecordToParams(entries, params) ==
  IF entries = <<>> THEN params
  ELSE LET key == Head(entries)[1]
           value == Head(entries)[2]
       IN RecordToParams(Tail(entries),
            IF value.isArray THEN AppendAll(params, key, value.items)
            ELSE ParamsSet(params, key, value.items[1]))

UrlDataOf(p, hasParams, entries) ==
  [pathname |-> p, hasSearchParams |-> hasParams, searchParams |-> entries]
NoUrlData == UrlDataOf("", FALSE, <<>>)

\* targetUrl of the host-to-app effect: pathname, then "?" + queryString if any
TargetUrl(urlData) ==
  UrlString(urlData.pathname,
            IF urlData.hasSearchParams
            THEN RecordToParams(urlData.searchParams, <<>>)
            ELSE <<>>)

\* currentUrl of both effects
CurrentUrl(path, params) == UrlString(path, params)

RECURSIVE IndexOfKey(_, _, _)
IndexOfKey(entries, key, i) ==
  IF i > Len(entries) THEN 0
  ELSE IF entries[i][1] = key THEN i ELSE IndexOfKey(entries, key, i + 1)

\* searchParams.forEach((value, key) => ...)  (searchParams to record)
\* `if (existing)`: an existing value that is the empty string is falsy
RECURSIVE ParamsToRecord(_, _)
ParamsToRecord(params, obj) ==
  IF params = <<>> THEN obj
  ELSE LET key == Head(params)[1]
           value == Head(params)[2]
           i == IndexOfKey(obj, key, 1)
           existing == IF i = 0 THEN Undefined ELSE obj[i][2]
           truthy == /\ i # 0
                     /\ (existing.isArray \/ existing.items[1] # "")
           next == IF truthy
                   THEN [obj EXCEPT ![i] = <<key, ArrValue(Append(existing.items, value))>>]
                   ELSE IF i # 0
                        THEN [obj EXCEPT ![i] = <<key, StrValue(value)>>]
                        ELSE Append(obj, <<key, StrValue(value)>>)
       IN ParamsToRecord(Tail(params), next)

\* urlData built by the app-to-host effect
UrlDataFrom(path, params) ==
  LET obj == IF params # <<>> THEN ParamsToRecord(params, <<>>) ELSE <<>>
  IN UrlDataOf(path, obj # <<>>, obj)


(* ----------------------------------------------------------------------- *)
(* The host capability object window.openai and the values of its globals. *)
(* Every JavaScript value is a record tagged by t.                         *)
(* ----------------------------------------------------------------------- *)
Undef == [t |-> Undefined]
NullV == [t |-> Null]
Obj(key, data) == [t |-> "object", key |-> key, data |-> data]

UrlKeys == {"url", "navigation"}
GlobalKeys == {"toolOutput", "widgetState", "theme"}
Methods == {"sendFollowUpMessage", "sendMessage", "openExternal", "callTool",
            "requestDisplayMode", "setWidgetState"}

NoGlobals == [k \in GlobalKeys |-> Undef]
AbsentHost == [present |-> FALSE, globals |-> NoGlobals, methods |-> {}]
HostWith(globals, methods) == [present |-> TRUE, globals |-> globals, methods |-> methods]
\* window.openai?.method
Has(host, method) == host.present /\ method \in host.methods

VARIABLES
  openai,             \* window.openai
  (* UrlController *)
  urlKey,             \* prop urlKey
  debug,              \* prop debug
  urlMounted,         \* the component is mounted
  pathname,           \* usePathname()
  searchParams,       \* useSearchParams(), as its list of pairs
  toolOutput,         \* useToolOutput() at the last render
  lastChatGPTUrlRef,  \* last URL pushed to the router from host data
  lastAppUrlRef,      \* last URL written to widget state
  routerPending,      \* navigation the router has accepted and not yet committed
  navBy,              \* who caused the current location since the mount:
                      \* "host" (router.push of the first effect), "user", or "none"
  lastStep,           \* the step taken last: "init", "mount", "commit" or "other"
  writesHere,         \* setWidgetState calls since the current location was committed
  (* Global State Bridge: consumers of useOpenAiGlobal *)
  consumers,          \* per consumer: mounted, key, value read at the last render
  listeners,          \* consumers whose handleSetGlobal is registered on window
  notified,           \* consumers whose onChange the last event called
  lastPayload,        \* detail.globals of the last openai:set_globals event
  bridgeStep,         \* the step taken last: operation and consumer
  (* Global State Bridge: one component using useWidgetState *)
  wsMounted,          \* the component is mounted
  widgetState,        \* the local state (useState)
  widgetStateFromWindow, \* useOpenAiGlobal('widgetState') at the last render
  stepCalls,          \* calls of host methods made by the step taken last
  widgetStep,         \* the step taken last: operation and argument
  (* ChatGPTBootstrap and the browser primitives it patches *)
  nested,             \* window.self !== window.top
  baseUrl,            \* getBaseURL()
  location,           \* window.location
  historyReplaceState, \* history.replaceState, a function reference
  historyPushState,   \* history.pushState
  windowFetch,        \* window.fetch
  boots,              \* per ChatGPTBootstrap instance: its effect's closure
  installs,           \* number of patch installations so far
  observers,          \* installations whose MutationObserver is connected
  clickListeners,     \* installations whose handleClick is registered
  nativeCalls,        \* calls that reached the browser's own functions in the last step
  lastClick,          \* outcome of the last click: default prevented, URLs opened
  bootStep,           \* the step taken last and its input
  (* the functions without state *)
  fnCall,             \* the function applied last and its arguments
  fnResult,           \* what it returned
  (* the attribute guard of ChatGPTBootstrap and the document *)
  attributes,         \* per element: the names of the attributes it has
  mutationRecords,    \* records queued for the MutationObserver's callback
  touched,            \* per element: attributes set from outside since observe()
  guardStep,          \* the step taken last
  callbacks           \* observer callbacks run since a script last touched an attribute

bridgeVars == <<consumers, listeners, notified, lastPayload, bridgeStep>>
widgetVars == <<wsMounted, widgetState, widgetStateFromWindow, stepCalls, widgetStep>>
bootVars == <<nested, baseUrl, location, historyReplaceState, historyPushState, windowFetch,
              boots, installs, observers, clickListeners, nativeCalls, lastClick,
              bootStep>>
pureVars == <<fnCall, fnResult>>
guardVars == <<attributes, mutationRecords, touched, guardStep, callbacks>>
urlVars == <<urlKey, debug, urlMounted, pathname, searchParams, toolOutput,
             lastChatGPTUrlRef, lastAppUrlRef, routerPending, navBy, lastStep,
             writesHere>>

(* ------------------------- Global State Bridge ------------------------- *)
\* a read of window.openai[key] without the optional chaining
getSnapshotUnguarded(host, key) ==
  IF host.present THEN host.globals[key] ELSE [t |-> "TypeError"]

\* getSnapshot of useOpenAiGlobal: window.openai?.[key]
getSnapshot(host, key) == IF host.present THEN host.globals[key] ELSE Undef

\* detail.globals: a partial mapping, kept as a function on GlobalKeys that
\* holds Absent for the keys the payload does not carry
Absent == [t |-> "absent"]
NoPayload == [k \in GlobalKeys |-> Absent]
PayloadOf(key, value) == [NoPayload EXCEPT ![key] = value]
\* detail.globals[key]: a key that is not there reads as undefined
Lookup(payload, key) == IF payload[key].t = "absent" THEN Undef ELSE payload[key]

\* handleSetGlobal with `key in globals` in place of `value !== undefined`
handleSetGlobalKeyPresent(payload, key) == payload[key].t # "absent"

\* handleSetGlobal: onChange() is called iff detail.globals[key] !== undefined
handleSetGlobal(payload, key) ==
  LET value == Lookup(payload, key)
  IN value.t # Undefined

\* no consumer of the Bridge in the page
NoConsumer == [mounted |-> FALSE, key |-> "none", value |-> Undef]
BridgeIdle ==
  /\ consumers = <<>>
  /\ listeners = {}
  /\ notified = {}
  /\ lastPayload = NoPayload
  /\ bridgeStep = "init"

\* no component using useWidgetState in the page
WidgetIdle ==
  /\ wsMounted = FALSE
  /\ widgetState = Undef
  /\ widgetStateFromWindow = Undef
  /\ stepCalls = <<>>
  /\ widgetStep = "init"

\* no ChatGPTBootstrap in the page
BootIdle ==
  /\ nested = FALSE
  /\ baseUrl = "none"
  /\ location = "none"
  /\ historyReplaceState = <<>>
  /\ historyPushState = <<>>
  /\ windowFetch = <<>>
  /\ boots = <<>>
  /\ installs = 0
  /\ observers = {}
  /\ clickListeners = {}
  /\ nativeCalls = <<>>
  /\ lastClick = "none"
  /\ bootStep = "init"

PureIdle ==
  /\ fnCall = "none"
  /\ fnResult = "none"

\* the document's elements and the attributes the page's scripts set on them
RootElement == "html"
Elements == {RootElement, "body"}
HydrationMarker == "suppresshydrationwarning"
AttrNames == {"class", HydrationMarker}
NoAttributes == [el \in Elements |-> {}]
\* no observer, no attribute set by a script
GuardIdle ==
  /\ attributes = NoAttributes
  /\ mutationRecords = <<>>
  /\ touched = NoAttributes
  /\ guardStep = "init"
  /\ callbacks = 0

(* ----------------------------- UrlController --------------------------- *)
\* longest run of setWidgetState calls kept for one location
MaxWrites == 2

\* the first effect without the comparison against the marker
UrlNavigateEffectNoMarker(tout, key, path, params, lastGpt, dbg) ==
  LET hasData == tout.t = "object" /\ tout.key = key
      urlData == IF hasData THEN tout.data ELSE NoUrlData
      skip == tout.t # "object" \/ urlData.pathname = ""
      targetUrl == TargetUrl(urlData)
      go == ~skip /\ targetUrl # CurrentUrl(path, params)
  IN [navigate |-> go,
      target |-> IF go THEN targetUrl ELSE NullRef,
      lastChatGPTUrlRef |-> IF go THEN targetUrl ELSE lastGpt,
      logs |-> IF go /\ dbg THEN <<"Navigating from ChatGPT">> ELSE <<>>]

\* the first effect with the marker assignment inside the `if (debug)` block
UrlNavigateEffectMarkerInDebug(tout, key, path, params, lastGpt, dbg) ==
  LET hasData == tout.t = "object" /\ tout.key = key
      urlData == IF hasData THEN tout.data ELSE NoUrlData
      skip == tout.t # "object" \/ urlData.pathname = ""
      targetUrl == TargetUrl(urlData)
      go == ~skip /\ targetUrl # CurrentUrl(path, params) /\ targetUrl # lastGpt
  IN [navigate |-> go,
      target |-> IF go THEN targetUrl ELSE NullRef,
      lastChatGPTUrlRef |-> IF go /\ dbg THEN targetUrl ELSE lastGpt,
      logs |-> IF go /\ dbg THEN <<"Navigating from ChatGPT">> ELSE <<>>]

\* first useEffect: tool output changes from the host navigate the router
UrlNavigateEffect(tout, key, path, params, lastGpt, dbg) ==
  LET hasData == tout.t = "object" /\ tout.key = key
      urlData == IF hasData THEN tout.data ELSE NoUrlData
      skip == tout.t # "object" \/ urlData.pathname = ""
      targetUrl == TargetUrl(urlData)
      currentUrl == CurrentUrl(path, params)
      go == ~skip /\ targetUrl # currentUrl /\ targetUrl # lastGpt
  IN [navigate |-> go,
      target |-> IF go THEN targetUrl ELSE NullRef,
      lastChatGPTUrlRef |-> IF go THEN targetUrl ELSE lastGpt,
      logs |-> IF go /\ dbg THEN <<"Navigating from ChatGPT">> ELSE <<>>]

\* second useEffect: route changes in the app are written to widget state
UrlSyncEffect(path, params, lastGpt, lastApp, dbg) ==
  LET currentUrl == CurrentUrl(path, params)
      skip == path = "" \/ currentUrl = lastGpt \/ currentUrl = lastApp
  IN [write |-> ~skip,
      state |-> Obj("url", UrlDataFrom(path, params)),
      lastAppUrlRef |-> IF skip THEN lastApp ELSE currentUrl,
      logs |-> IF ~skip /\ dbg THEN <<"Syncing to ChatGPT">> ELSE <<>>]

NoPending == [url |-> NullRef, by |-> "none"]
\* router.push(url): a navigation supersedes the one still pending
RouterPush(url, by) == [url |-> url, by |-> by]

\* the navigations, writes and markers of one commit of the component with
\* the debug prop dbg: the effects whose dependencies changed run in order
UrlEffects(tout, key, path, params, lastGpt, lastApp, runNavigate, runSync, dbg) ==
  LET e1 == IF runNavigate
            THEN UrlNavigateEffect(tout, key, path, params, lastGpt, dbg)
            ELSE [navigate |-> FALSE, target |-> NullRef,
                  lastChatGPTUrlRef |-> lastGpt, logs |-> <<>>]
      e2 == IF runSync
            THEN UrlSyncEffect(path, params, e1.lastChatGPTUrlRef, lastApp, dbg)
            ELSE [write |-> FALSE, state |-> NullV, lastAppUrlRef |-> lastApp,
                  logs |-> <<>>]
  IN [pushes |-> IF e1.navigate THEN <<e1.target>> ELSE <<>>,
      writes |-> IF e2.write THEN <<e2.state>> ELSE <<>>,
      lastChatGPTUrlRef |-> e1.lastChatGPTUrlRef,
      lastAppUrlRef |-> e2.lastAppUrlRef,
      logs |-> e1.logs \o e2.logs]

\* what a run decides: everything but the console
Decisions(e) == [pushes |-> e.pushes, writes |-> e.writes,
                 lastChatGPTUrlRef |-> e.lastChatGPTUrlRef,
                 lastAppUrlRef |-> e.lastAppUrlRef]

\* one commit of the component: the effects whose dependencies changed run in order
UrlCommit(tout, path, params, runNavigate, runSync, step) ==
  LET e == UrlEffects(tout, urlKey, path, params, lastChatGPTUrlRef, lastAppUrlRef,
                      runNavigate, runSync, debug)
      moved == step \in {"commit", "mount"}
      before == IF moved THEN <<>> ELSE writesHere
  IN /\ toolOutput' = tout
     /\ pathname' = path
     /\ searchParams' = params
     /\ lastChatGPTUrlRef' = e.lastChatGPTUrlRef
     /\ lastAppUrlRef' = e.lastAppUrlRef
     /\ routerPending' = IF e.pushes # <<>> THEN RouterPush(e.pushes[1], "host")
                         ELSE IF step = "commit" THEN NoPending
                         ELSE routerPending
     /\ writesHere' = before \o e.writes
     /\ lastStep' = step

Step(kind, url) == kind

\* the component mounts: first render, then both effects
UrlMount ==
  /\ ~urlMounted
  /\ urlMounted' = TRUE
  /\ UrlCommit(getSnapshot(openai, "toolOutput"), pathname, searchParams,
               TRUE, TRUE, Step("mount", CurrentUrl(pathname, searchParams)))
  /\ navBy' = "none"
  /\ UNCHANGED <<openai, urlKey, debug, bridgeVars, widgetVars, bootVars, pureVars, guardVars>>

HostEntries ==
  {<<>>} \cup {<<<<k, StrValue(v)>>>> : k \in QKeys, v \in QVals}
         \cup {<<<<k, ArrValue(vs)>>>> : k \in QKeys, vs \in SeqsUpTo(QVals, MaxParams)}
HostUrlData ==
  {UrlDataOf(p, FALSE, <<>>) : p \in Paths \cup {""}}
    \cup {UrlDataOf(p, TRUE, e) : p \in Paths, e \in HostEntries}
\* what the host pushes: null, an object without the key, an object with it
ToolOutputs(key) == {NullV, Obj("data", NoUrlData)} \cup {Obj(key, d) : d \in HostUrlData}

\* the host sets window.openai.toolOutput and dispatches openai:set_globals
UrlHostPush(tout) ==
  /\ openai.present
  /\ openai' = [openai EXCEPT !.globals["toolOutput"] = tout]
  /\ IF urlMounted /\ handleSetGlobal(PayloadOf("toolOutput", tout), "toolOutput")
     THEN UrlCommit(getSnapshot(openai', "toolOutput"), pathname, searchParams,
                    TRUE, FALSE, Step("other", NullRef))
     ELSE UNCHANGED <<toolOutput, pathname, searchParams, lastChatGPTUrlRef,
                      lastAppUrlRef, routerPending, writesHere, lastStep>>
  /\ UNCHANGED <<urlKey, debug, urlMounted, navBy, bridgeVars, widgetVars, bootVars, pureVars, guardVars>>

\* the user follows a link: the router accepts a navigation to url
UserNavigate(url) ==
  /\ url # CurrentUrl(pathname, searchParams)
  /\ routerPending' = RouterPush(url, "user")
  /\ lastStep' = Step("other", url)
  /\ UNCHANGED <<openai, urlKey, debug, urlMounted, pathname, searchParams,
                 toolOutput, lastChatGPTUrlRef, lastAppUrlRef, navBy, writesHere,
                 bridgeVars, widgetVars, bootVars, pureVars, guardVars>>

\* the router commits the pending navigation: pathname and searchParams change
RouterCommit ==
  /\ routerPending # NoPending
  /\ navBy' = routerPending.by
  /\ IF urlMounted
     THEN UrlCommit(getSnapshot(openai, "toolOutput"), routerPending.url.pathname,
                    routerPending.url.search, TRUE, TRUE,
                    Step("commit", routerPending.url))
     ELSE /\ pathname' = routerPending.url.pathname
          /\ searchParams' = routerPending.url.search
          /\ routerPending' = NoPending
          /\ lastStep' = Step("commit", routerPending.url)
          /\ writesHere' = <<>>
          /\ UNCHANGED <<toolOutput, lastChatGPTUrlRef, lastAppUrlRef>>
  /\ UNCHANGED <<openai, urlKey, debug, urlMounted, bridgeVars, widgetVars, bootVars, pureVars, guardVars>>

\* the router notifies again for the same location (new searchParams object)
RouterNotify ==
  /\ urlMounted
  /\ Len(writesHere) < MaxWrites
  /\ UrlCommit(getSnapshot(openai, "toolOutput"), pathname, searchParams,
               TRUE, TRUE, Step("other", NullRef))
  /\ UNCHANGED <<openai, urlKey, debug, urlMounted, navBy, bridgeVars, widgetVars, bootVars, pureVars, guardVars>>

\* no UrlController in the page
UrlIdle ==
  /\ urlKey = "url"
  /\ debug = FALSE
  /\ urlMounted = FALSE
  /\ pathname = "/a"
  /\ searchParams = <<>>
  /\ toolOutput = Undef
  /\ lastChatGPTUrlRef = NullRef
  /\ lastAppUrlRef = NullRef
  /\ routerPending = NoPending
  /\ navBy = "none"
  /\ lastStep = "init"
  /\ writesHere = <<>>

UrlInit ==
  /\ PureIdle
  /\ GuardIdle
  /\ BridgeIdle
  /\ WidgetIdle
  /\ BootIdle
  /\ openai \in {AbsentHost, HostWith(NoGlobals, Methods)}
  /\ urlKey \in UrlKeys
  /\ debug \in BOOLEAN
  /\ urlMounted = FALSE
  /\ pathname = "/a"
  /\ searchParams = <<>>
  /\ toolOutput = Undef
  /\ lastChatGPTUrlRef = NullRef
  /\ lastAppUrlRef = NullRef
  /\ routerPending = NoPending
  /\ navBy = "none"
  /\ lastStep = "init"
  /\ writesHere = <<>>

UrlNext ==
  \/ UrlMount
  \/ \E tout \in ToolOutputs(urlKey) : UrlHostPush(tout)
  \/ \E url \in AppUrls : UserNavigate(url)
  \/ RouterCommit
  \/ RouterNotify

vars == <<openai, urlVars, bridgeVars, widgetVars, bootVars, pureVars, guardVars>>
SpecUrl == UrlInit /\ [][UrlNext]_vars

(* ------------------------- claims: UrlController ----------------------- *)
\* C1 - loop freedom, host to app: when the router commits a navigation that
\* the first effect pushed for host data (the current URL becomes u), that
\* commit makes no setWidgetState call.
C1_HostNavigationNotEchoed ==
  (urlMounted /\ lastStep = "commit" /\ navBy = "host") => writesHere = <<>>

\* C2 - loop freedom, app to host, as claimed: at a location u the user
\* navigated to, exactly one setWidgetState call has been made, with u's
\* pathname and search params, however many notifications followed.
C2_UserNavigationWrittenOnce ==
  (urlMounted /\ navBy = "user")
    => writesHere = <<Obj("url", UrlDataFrom(pathname, searchParams))>>

\* C21 - the configurable key: every setWidgetState call of the app-to-host
\* effect stores the UrlData under urlKey, the key the host-to-app effect
\* reads in toolOutput.
C21_WrittenUnderUrlKey ==
  \A i \in 1..Len(writesHere) : writesHere[i].key = urlKey

\* the router commits a navigation of the user while the host's record is
\* the one the component rendered with last
UserCommitOnUnchangedRecord ==
  /\ urlMounted
  /\ routerPending.by = "user"
  /\ getSnapshot(openai, "toolOutput") = toolOutput
  /\ toolOutput' = toolOutput
  /\ lastStep' = "commit"

\* C33 - a navigation of the user is not overridden by an unchanged host
\* record: when the router commits a navigation of the user and the
\* toolOutput record is the one already processed, the component pushes no
\* navigation to the router.
C33_UserNavigationNotOverridden ==
  [][UserCommitOnUnchangedRecord => routerPending'.by # "host"]_vars

\* The same component under the router's scheduling: a navigation the router
\* accepted is committed. Nothing obliges the user, the host or the router to
\* act again once the page has settled.
SpecUrlFair == SpecUrl /\ WF_vars(RouterCommit)

\* the router just committed a navigation of the user
UserNavigated == urlMounted /\ navBy = "user" /\ lastStep = "commit"
\* the URL most recently written to widget state is the current one
CurrentUrlReported == lastAppUrlRef = CurrentUrl(pathname, searchParams)

\* C34 - every navigation of the user is reported: after the router commits
\* a navigation of the user, a setWidgetState call for the current URL
\* eventually is the most recent write (it already is when the URL equals
\* the one written last), also when the host pushed that URL earlier.
C34_UserNavigationReported == UserNavigated ~> CurrentUrlReported


(* ----------------------------------------------------------------------- *)
(* Global State Bridge, reads: components calling useOpenAiGlobal(key) and  *)
(* the host's openai:set_globals events.                                    *)
(* ----------------------------------------------------------------------- *)
\* consumers that can be mounted at once
MaxConsumers == 2
Cids == 1..MaxConsumers

Str(v) == [t |-> "string", s |-> v]
S1 == Obj("s1", NoUrlData)
S2 == Obj("s2", NoUrlData)
BridgeKeys == {"widgetState", "theme"}
\* what a set_globals payload can hold for a key
PayloadValues(key) ==
  IF key = "widgetState" THEN {Absent, Undef, NullV, S1}
  ELSE IF key = "theme" THEN {Absent, Undef, Str("dark")}
  ELSE {Absent}
Payloads == {p \in [GlobalKeys -> UNION {PayloadValues(k) : k \in GlobalKeys}] :
               \A k \in GlobalKeys : p[k] \in PayloadValues(k)}

\* the host object after the host has applied a payload to its globals
HostApply(host, payload) ==
  [host EXCEPT !.globals =
     [k \in GlobalKeys |-> IF payload[k].t = "absent" THEN host.globals[k] ELSE payload[k]]]

\* subscribe: window.addEventListener(SET_GLOBALS_EVENT_TYPE, handleSetGlobal)
\* with the handler this subscription created
subscribe(registered, c) == registered \cup {c}
\* an unsubscribe that hands removeEventListener another function than the
\* one that was added
unsubscribeOtherHandler(registered, c) == registered
\* unsubscribe: window.removeEventListener(SET_GLOBALS_EVENT_TYPE, handleSetGlobal)
unsubscribe(registered, c) == registered \ {c}

\* a component calling useOpenAiGlobal(key) mounts: subscribe, first read
BridgeMount(c, key) ==
  /\ ~consumers[c].mounted
  /\ consumers' = [consumers EXCEPT ![c] =
       [mounted |-> TRUE, key |-> key, value |-> getSnapshot(openai, key)]]
  /\ listeners' = subscribe(listeners, c)
  /\ bridgeStep' = [op |-> "mount", c |-> c]
  /\ UNCHANGED <<openai, notified, lastPayload, urlVars, widgetVars, bootVars, pureVars, guardVars>>

\* the component unmounts: its listener is removed
BridgeUnmount(c) ==
  /\ consumers[c].mounted
  /\ consumers' = [consumers EXCEPT ![c] = NoConsumer]
  /\ listeners' = unsubscribe(listeners, c)
  /\ bridgeStep' = [op |-> "unmount", c |-> c]
  /\ UNCHANGED <<openai, notified, lastPayload, urlVars, widgetVars, bootVars, pureVars, guardVars>>

\* the host updates its globals and dispatches openai:set_globals; every
\* registered handleSetGlobal runs, the consumers it notifies render again
HostSetGlobals(payload) ==
  /\ openai.present
  /\ openai' = HostApply(openai, payload)
  /\ lastPayload' = payload
  /\ notified' = {c \in listeners : handleSetGlobal(payload, consumers[c].key)}
  /\ consumers' = [c \in Cids |->
                     IF c \in notified'
                     THEN [consumers[c] EXCEPT
                             !.value = getSnapshot(openai', consumers[c].key)]
                     ELSE consumers[c]]
  /\ bridgeStep' = [op |-> "event", c |-> 0]
  /\ UNCHANGED <<listeners, urlVars, widgetVars, bootVars, pureVars, guardVars>>

\* the consumer's component renders again for a reason of its own:
\* useSyncExternalStore reads the snapshot again
BridgeRender(c) ==
  /\ consumers[c].mounted
  /\ consumers' = [consumers EXCEPT ![c].value = getSnapshot(openai, consumers[c].key)]
  /\ bridgeStep' = [op |-> "render", c |-> c]
  /\ UNCHANGED <<openai, listeners, notified, lastPayload, urlVars, widgetVars, bootVars, pureVars, guardVars>>

BridgeInit ==
  /\ PureIdle
  /\ GuardIdle
  /\ UrlIdle
  /\ WidgetIdle
  /\ BootIdle
  /\ openai \in {AbsentHost}
       \cup {HostWith([NoGlobals EXCEPT !["theme"] = th], Methods) :
               th \in {Undef, Str("dark")}}
  /\ consumers = [c \in Cids |-> NoConsumer]
  /\ listeners = {}
  /\ notified = {}
  /\ lastPayload = NoPayload
  /\ bridgeStep = [op |-> "init", c |-> 0]

BridgeNext ==
  \/ \E c \in Cids, key \in BridgeKeys : BridgeMount(c, key)
  \/ \E c \in Cids : BridgeUnmount(c)
  \/ \E payload \in Payloads : HostSetGlobals(payload)
  \/ \E c \in Cids : BridgeRender(c)

SpecBridge == BridgeInit /\ [][BridgeNext]_vars


(* ----------------------- claims: reads of the Bridge ------------------- *)
\* C3 - after a set_globals event, a mounted consumer of key K has been
\* notified exactly when the payload holds K with a value that is not
\* undefined; a payload without K, or with undefined for K, notifies no
\* consumer of K.
C3_NotifiedIffKeyDefined ==
  bridgeStep.op = "event" =>
    \A c \in Cids :
      consumers[c].mounted =>
        (c \in notified <=> lastPayload[consumers[c].key].t \notin {"absent", Undefined})

\* one event notified a consumer and left alone another whose key it held as
\* undefined
C3_Witness ==
  /\ bridgeStep.op = "event"
  /\ \E c1, c2 \in Cids :
       /\ consumers[c1].mounted /\ c1 \in notified
       /\ consumers[c2].mounted /\ c2 \notin notified
       /\ lastPayload[consumers[c2].key].t = Undefined

\* the consumers that are mounted
MountedConsumers == {c \in Cids : consumers[c].mounted}

\* C26 - listener accounting: the registered host-notification listeners are
\* those of the mounted consumers, one each; an event notifies no consumer
\* that is not mounted and every mounted consumer whose key the payload
\* defines, whatever was unmounted before.
C26_OneListenerPerMountedConsumer ==
  /\ listeners = MountedConsumers
  /\ Cardinality(listeners) = Cardinality(MountedConsumers)
  /\ bridgeStep.op = "event" =>
       /\ notified \subseteq MountedConsumers
       /\ \A c \in MountedConsumers :
            lastPayload[consumers[c].key].t \notin {"absent", Undefined} => c \in notified

\* a consumer that had been notified was unmounted and the other consumer's
\* listener is still registered
C26_Witness ==
  /\ bridgeStep.op = "unmount"
  /\ bridgeStep.c \in notified
  /\ Cardinality(listeners) = 1

\* C4 - a read of key K (at mount, at a render, after a notification) yields
\* the host object's current value of K when the host object exists and
\* undefined when it does not; no read raises.
C4_ReadYieldsHostValueOrUndefined ==
  LET current(c) == IF openai.present THEN openai.globals[consumers[c].key] ELSE Undef
  IN /\ bridgeStep.op \in {"mount", "render"}
          => consumers[bridgeStep.c].value = current(bridgeStep.c)
     /\ bridgeStep.op = "event"
          => \A c \in notified : consumers[c].value = current(c)

\* a consumer has read its key with no host object in the page
C4_Witness ==
  /\ bridgeStep.op = "render"
  /\ ~openai.present
  /\ consumers[bridgeStep.c].mounted
  /\ consumers[bridgeStep.c].value = Undef


(* ----------------------------------------------------------------------- *)
(* Global State Bridge, widget state: one component calling                 *)
(* useWidgetState(defaultState), its setter, and the host's pushes.         *)
(* ----------------------------------------------------------------------- *)
\* `x != null`: neither null nor undefined
NotNullish(v) == v.t \notin {Null, Undefined}

\* an argument of the setter or of the hook: a state (Undef when none is
\* given), or a function (prev => value, prev => prev)
StateArg(v) == [isFunction |-> FALSE, body |-> "none", value |-> v]
ConstFunction(v) == [isFunction |-> TRUE, body |-> "const", value |-> v]
PrevFunction == [isFunction |-> TRUE, body |-> "prev", value |-> Undef]
NoArg == StateArg(Undef)
DefaultStates == {NoArg, StateArg(S2), ConstFunction(S2)}
SetterArgs == {StateArg(v) : v \in {NullV, S1, S2}} \cup {ConstFunction(S2), PrevFunction}

\* an initializer that returns the default as given, without `?? null`
InitialWidgetStateNoNull(fromWindow, defaultState) ==
  IF NotNullish(fromWindow) THEN fromWindow ELSE defaultState.value

\* useState initializer of useWidgetState
InitialWidgetState(fromWindow, defaultState) ==
  IF NotNullish(fromWindow) THEN fromWindow
  ELSE IF defaultState.isFunction THEN defaultState.value
  ELSE IF NotNullish(defaultState.value) THEN defaultState.value ELSE NullV

HostCall(method, arg) == [method |-> method, arg |-> arg]

\* a setter that leaves the local state to the host's next push whenever the
\* host can persist the state
setWidgetStateAwaitHost(host, prevState, state) ==
  LET newState == IF state.isFunction
                  THEN (IF state.body = "prev" THEN prevState ELSE state.value)
                  ELSE state.value
      mirrored == NotNullish(newState) /\ host.present /\ "setWidgetState" \in host.methods
  IN [newState |-> IF mirrored THEN prevState ELSE newState,
      calls |-> IF mirrored THEN <<HostCall("setWidgetState", newState)>> ELSE <<>>]

\* setWidgetState of useWidgetState: the updater it gives to _setWidgetState
setWidgetState(host, prevState, state) ==
  LET newState == IF state.isFunction
                  THEN (IF state.body = "prev" THEN prevState ELSE state.value)
                  ELSE state.value
  IN [newState |-> newState,
      calls |-> IF NotNullish(newState) /\ host.present
                   /\ "setWidgetState" \in host.methods
                THEN <<HostCall("setWidgetState", newState)>>
                ELSE <<>>]

\* the effect on [widgetStateFromWindow]: when the snapshot read by this render
\* is another value than at the last render and is not null, it becomes the
\* local state.  fresh: the host has just stored a new object.
WidgetStateEffect(fromWindow, before, local, fresh) ==
  IF (fresh \/ fromWindow # before) /\ NotNullish(fromWindow) THEN fromWindow ELSE local

\* the component mounts: first read, useState initializer, subscribe, effect
WidgetMount(defaultState) ==
  /\ ~wsMounted
  /\ wsMounted' = TRUE
  /\ widgetStateFromWindow' = getSnapshot(openai, "widgetState")
  /\ widgetState' = WidgetStateEffect(widgetStateFromWindow', widgetStateFromWindow',
                      InitialWidgetState(widgetStateFromWindow', defaultState), TRUE)
  /\ stepCalls' = <<>>
  /\ widgetStep' = [op |-> "mount", arg |-> defaultState]
  /\ UNCHANGED <<openai, urlVars, bridgeVars, bootVars, pureVars, guardVars>>

\* the component unmounts: its state is gone
WidgetUnmount ==
  /\ wsMounted
  /\ wsMounted' = FALSE
  /\ widgetState' = Undef
  /\ widgetStateFromWindow' = Undef
  /\ stepCalls' = <<>>
  /\ widgetStep' = [op |-> "unmount", arg |-> NoArg]
  /\ UNCHANGED <<openai, urlVars, bridgeVars, bootVars, pureVars, guardVars>>

\* the host stores w as its widgetState and dispatches openai:set_globals with
\* {widgetState: w}; the hook, if notified, renders and runs its effect
WidgetHostPush(w) ==
  /\ openai.present
  /\ openai' = HostApply(openai, PayloadOf("widgetState", w))
  /\ IF wsMounted /\ handleSetGlobal(PayloadOf("widgetState", w), "widgetState")
     THEN /\ widgetStateFromWindow' = getSnapshot(openai', "widgetState")
          /\ widgetState' = WidgetStateEffect(widgetStateFromWindow',
                              widgetStateFromWindow, widgetState, TRUE)
     ELSE UNCHANGED <<widgetState, widgetStateFromWindow>>
  /\ stepCalls' = <<>>
  /\ widgetStep' = [op |-> "push", arg |-> StateArg(w)]
  /\ UNCHANGED <<wsMounted, urlVars, bridgeVars, bootVars, pureVars, guardVars>>

\* how often React invokes an updater function given to a state setter:
\* once, or twice in a development build under Strict Mode (the second
\* result is discarded, what the function did besides is not)
UpdaterRuns == {"once", "twice"}

\* what one call of the setter does, in order: the updater runs and makes its
\* host calls before it returns, then React stores the state it returned
SetterEvents(calls, newState) ==
  [i \in 1..Len(calls) |-> [ev |-> "host", arg |-> calls[i].arg]]
    \o <<[ev |-> "local", arg |-> newState]>>

\* the setter is called with state; the component renders with the new state
WidgetSet(state, runs) ==
  /\ wsMounted
  /\ LET r == setWidgetState(openai, widgetState, state)
     IN /\ widgetStateFromWindow' = getSnapshot(openai, "widgetState")
        /\ widgetState' = WidgetStateEffect(widgetStateFromWindow',
                            widgetStateFromWindow, r.newState, FALSE)
        /\ stepCalls' = IF runs = "twice" THEN r.calls \o r.calls ELSE r.calls
        /\ widgetStep' = [op |-> "set", arg |-> state, runs |-> runs,
                          newState |-> r.newState,
                          events |-> SetterEvents(stepCalls', r.newState)]
  /\ UNCHANGED <<openai, wsMounted, urlVars, bridgeVars, bootVars, pureVars, guardVars>>

WidgetInit ==
  /\ PureIdle
  /\ GuardIdle
  /\ UrlIdle
  /\ BridgeIdle
  /\ BootIdle
  /\ openai \in {AbsentHost}
       \cup {HostWith([NoGlobals EXCEPT !["widgetState"] = w], ms) :
               w \in {Undef, NullV, S1}, ms \in {Methods \ {"setWidgetState"}, Methods}}
  /\ wsMounted = FALSE
  /\ widgetState = Undef
  /\ widgetStateFromWindow = Undef
  /\ stepCalls = <<>>
  /\ widgetStep = [op |-> "init", arg |-> NoArg]

WidgetNext ==
  \/ \E d \in DefaultStates : WidgetMount(d)
  \/ WidgetUnmount
  \/ \E w \in {Undef, NullV, S1, S2} : WidgetHostPush(w)
  \/ \E state \in SetterArgs, runs \in UpdaterRuns : WidgetSet(state, runs)

SpecWidget == WidgetInit /\ [][WidgetNext]_vars

(* ------------------------- claims: widget state ------------------------ *)
\* C5 - widget-state round trip: right after the setter was called with a
\* state S, the local widget state is S, with the host API present or absent
\* and whatever the host still holds as widgetState.
C5_WriteThenReadYieldsWritten ==
  (widgetStep.op = "set" /\ ~widgetStep.arg.isFunction)
    => widgetState = widgetStep.arg.value

\* S2 has been written while the host, able to persist, still holds S1
C5_Witness ==
  /\ widgetStep.op = "set"
  /\ widgetStep.arg = StateArg(S2)
  /\ widgetState = S2
  /\ openai.present /\ "setWidgetState" \in openai.methods
  /\ openai.globals["widgetState"] = S1


\* C13: each call of the setter that produces the state S leaves S as the
\* local widget state and, when the host provides setWidgetState, calls it
\* with S exactly once; without it, no host call is made.
C13_EveryWriteMirroredOnce ==
  widgetStep.op = "set" =>
    /\ widgetState = widgetStep.newState
    /\ stepCalls = IF Has(openai, "setWidgetState")
                   THEN <<HostCall("setWidgetState", widgetStep.newState)>>
                   ELSE <<>>

\* C29 - widget-state initialization: right after the mount the local state
\* is the host's widgetState when that is neither null nor undefined, and
\* otherwise the default: what the default function returns, the default
\* value, or null when none was given.
C29_InitialStateFromHostElseDefault ==
  widgetStep.op = "mount" =>
    LET hostValue == IF openai.present THEN openai.globals["widgetState"] ELSE Undef
        given == widgetStep.arg
    IN widgetState =
         IF hostValue.t \notin {Null, Undefined} THEN hostValue
         ELSE IF given.isFunction THEN given.value
         ELSE IF given.value.t = Undefined THEN NullV
         ELSE given.value

\* a mount with a default while the host holds a widget state
C29_Witness ==
  /\ widgetStep.op = "mount"
  /\ widgetStep.arg = StateArg(S2)
  /\ openai.present /\ openai.globals["widgetState"] = S1
  /\ widgetState = S1

\* C23 - ordering of a widget-state write: within one call of the setter the
\* local state is updated to the new state before the host's setWidgetState
\* is called.
C23_LocalUpdateBeforeHostCall ==
  widgetStep.op = "set" =>
    \A i, j \in 1..Len(widgetStep.events) :
      (widgetStep.events[i].ev = "local" /\ widgetStep.events[j].ev = "host") => i < j

\* C14: the local widget state of a mounted consumer is the value of the
\* write that happened last: right after the host pushed the widgetState W
\* it is W, and right after a local write that produced S it is S.
C14_LastWriteWins ==
  wsMounted =>
    /\ (widgetStep.op = "push" /\ widgetStep.arg.value # Undef) =>
         widgetState = widgetStep.arg.value
    /\ widgetStep.op = "set" => widgetState = widgetStep.newState

(* ----------------------------------------------------------------------- *)
(* Bootstrap Interposer: ChatGPTBootstrap and the browser primitives.       *)
(*                                                                         *)
(* A URL string is kept as its origin, pathname, search and hash; a string  *)
(* that carries no origin (a relative reference) has origin "".  A function *)
(* reference is the stack of wrappers around the browser's own function:    *)
(* the native function it ends in and the wrappers put around it, the last  *)
(* one outermost.                                                           *)
(* ----------------------------------------------------------------------- *)
\* installations of the patches in one run
MaxInstalls == 2

DocOrigin == "https://sandbox.host.example"
AppOrigin == "https://app.example"
OtherOrigin == "https://other.example"

UrlOf(o, p, q, h) == [origin |-> o, pathname |-> p, search |-> q, hash |-> h]
EmptyString == UrlOf("", "", "", "")
\* a string that new URL() refuses with a TypeError
Malformed == UrlOf("(malformed)", "", "", "")

\* new URL(ref, base)
ResolveUrl(ref, base) ==
  IF ref.origin # ""
  THEN [ref EXCEPT !.pathname = IF ref.pathname = "" THEN "/" ELSE ref.pathname]
  ELSE IF ref.pathname # "" THEN UrlOf(base.origin, ref.pathname, ref.search, ref.hash)
  ELSE IF ref.search # "" THEN UrlOf(base.origin, base.pathname, ref.search, ref.hash)
  ELSE UrlOf(base.origin, base.pathname, base.search, ref.hash)

\* the url argument of pushState / replaceState
UrlArg(kind, ref) == [kind |-> kind, ref |-> ref]
HistoryCallOf(state, unused, url) == [state |-> state, unused |-> unused, url |-> url]
\* in place of the call passed on: the patch threw before it called anything
HistoryThrown == HistoryCallOf("(thrown)", "(thrown)", UrlArg("TypeError", Malformed))

\* a patch that forwards the resolved URL whole (u.href)
HistoryPatchHref(call, loc) ==
  IF call.url.ref = Malformed THEN HistoryThrown ELSE
  LET u == ResolveUrl(IF call.url.kind \in {Null, Undefined} THEN EmptyString
                      ELSE call.url.ref, loc)
  IN HistoryCallOf(call.state, call.unused, UrlArg("string", u))

\* the patched history.replaceState / history.pushState: what it passes to
\* the original function
HistoryPatch(call, loc) ==
  IF call.url.ref = Malformed THEN HistoryThrown ELSE
  LET u == ResolveUrl(IF call.url.kind \in {Null, Undefined} THEN EmptyString
                      ELSE call.url.ref, loc)
      href == UrlOf("", u.pathname, u.search, u.hash)
  IN HistoryCallOf(call.state, call.unused, UrlArg("string", href))

\* the input and init arguments of fetch
FetchInput(shape, url, method) == [shape |-> shape, url |-> url, method |-> method]
NoInit == [given |-> FALSE, method |-> "unset", mode |-> "unset"]
InitOf(method, mode) == [given |-> TRUE, method |-> method, mode |-> mode]
FetchCallOf(input, init) == [input |-> input, init |-> init]
FetchThrown == FetchCallOf(FetchInput("TypeError", Malformed, "unset"), NoInit)

\* a patch that rewrites every recognized request, whatever its origin
FetchPatchAnyOrigin(call, loc, base) ==
  LET recognized == call.input.shape \in {"URL", "string", "Request"}
      url == IF call.input.shape = "URL" THEN call.input.url
             ELSE ResolveUrl(call.input.url, loc)
  IN IF ~recognized THEN call
     ELSE IF url = Malformed THEN FetchThrown
     ELSE FetchCallOf(FetchInput("string",
                        UrlOf(base.origin, url.pathname, url.search, url.hash), "unset"),
                      [call.init EXCEPT !.given = TRUE, !.mode = "cors"])

\* the patched window.fetch: what it passes to the original function
FetchPatch(call, loc, base) ==
  LET recognized == call.input.shape \in {"URL", "string", "Request"}
      url == IF call.input.shape = "URL" THEN call.input.url
             ELSE ResolveUrl(call.input.url, loc)
  IN IF ~recognized THEN call
     ELSE IF url = Malformed THEN FetchThrown
     ELSE IF url.origin = loc.origin
     THEN FetchCallOf(FetchInput("string",
                        UrlOf(base.origin, url.pathname, url.search, url.hash), "unset"),
                      [call.init EXCEPT !.given = TRUE, !.mode = "cors"])
     ELSE call

\* wrappers: made by installation id of instance inst; inst 0 is a wrapper
\* some other script put in place before, which passes its arguments on
Wrapper(inst, id) == [inst |-> inst, id |-> id]
ThirdParty == Wrapper(0, 0)
Front(f) == SubSeq(f, 1, Len(f) - 1)
Last(f) == f[Len(f)]

\* calling a function reference: each wrapper calls the function it captured
FunctionRef(native, wrappers) == [native |-> native, wrappers |-> wrappers]
Wrap(f, w) == FunctionRef(f.native, Append(f.wrappers, w))
Patched(f) == \E k \in 1..Len(f.wrappers) : f.wrappers[k].inst # 0

\* calling a function reference: each wrapper calls the function it captured;
\* the result is the call that reaches the native function
RECURSIVE CallHistory(_, _, _)
CallHistory(ws, call, loc) ==
  IF ws = <<>> \/ call = HistoryThrown THEN call
  ELSE CallHistory(Front(ws),
                   IF Last(ws).inst = 0 THEN call ELSE HistoryPatch(call, loc), loc)

RECURSIVE CallFetch(_, _, _, _)
CallFetch(ws, call, loc, base) ==
  IF ws = <<>> \/ call = FetchThrown THEN call
  ELSE CallFetch(Front(ws),
                 IF Last(ws).inst = 0 THEN call ELSE FetchPatch(call, loc, base), loc, base)

\* the browser's own pushState / replaceState: a same-origin URL becomes the
\* document's location, no URL leaves it alone, another origin is refused
NativeHistory(call, loc) ==
  IF call.url.kind \in {Null, Undefined} THEN loc
  ELSE LET u == ResolveUrl(call.url.ref, loc)
       IN IF u.origin = loc.origin THEN u ELSE loc

\* isInIframe()
isInIframe == nested
\* the gate with the host object left out
isChatGPTIframeNestedOnly(host) == isInIframe
\* isChatGPTIframe(baseUrl): nested and typeof window.openai !== 'undefined'
isChatGPTIframe(host) == isInIframe /\ host.present


\* a clicked element: inside an anchor or not, and the anchor's href
Anchor(inAnchor, href) == [inAnchor |-> inAnchor, href |-> href]
ClickOutcome(prevented, opened) == [prevented |-> prevented, opened |-> opened]
NoClick == ClickOutcome(FALSE, <<>>)

\* a handler that takes only the document's origin as its own
handleClickDocOnly(a, host, loc, appOrigin) ==
  IF ~a.inAnchor \/ a.href = EmptyString THEN NoClick
  ELSE IF a.href = Malformed THEN NoClick
  ELSE LET url == ResolveUrl(a.href, loc)
       IN IF url.origin # loc.origin
          THEN IF host.present /\ "openExternal" \in host.methods
               THEN ClickOutcome(TRUE, <<a.href>>)
               ELSE NoClick
          ELSE NoClick

\* handleClick of one installation, whose call of the host's openExternal
\* returns or throws: the call comes first, preventDefault after it, both
\* inside the try
handleClickTry(a, host, loc, appOrigin, hostOutcome) ==
  IF ~a.inAnchor \/ a.href = EmptyString THEN NoClick
  ELSE IF a.href = Malformed THEN NoClick
  ELSE LET url == ResolveUrl(a.href, loc)
       IN IF url.origin # loc.origin /\ url.origin # appOrigin
          THEN IF host.present /\ "openExternal" \in host.methods
               THEN ClickOutcome(hostOutcome = "ok", <<a.href>>)
               ELSE NoClick
          ELSE NoClick

\* handleClick of one installation, with a host whose openExternal returns
handleClick(a, host, loc, appOrigin) == handleClickTry(a, host, loc, appOrigin, "ok")

\* the click event reaches every registered capture listener
RECURSIVE ClickDispatch(_, _, _, _, _)
ClickDispatch(n, a, host, loc, appOrigin) ==
  IF n = 0 THEN NoClick
  ELSE LET rest == ClickDispatch(n - 1, a, host, loc, appOrigin)
           mine == handleClick(a, host, loc, appOrigin)
       IN ClickOutcome(rest.prevented \/ mine.prevented, rest.opened \o mine.opened)

BootIds == {1, 2}
Refs(r, p, f) == [replaceState |-> r, pushState |-> p, fetch |-> f]
NoRefs == Refs(FunctionRef("none", <<>>), FunctionRef("none", <<>>), FunctionRef("none", <<>>))
CurrentRefs == Refs(historyReplaceState, historyPushState, windowFetch)
Unmounted ==
  [mounted |-> FALSE, enableExternalLinks |-> FALSE, id |-> 0,
   originals |-> NoRefs, before |-> NoRefs]

\* a cleanup that restores pushState from the wrong capture
RestoreOriginalsSwapped(b) ==
  Refs(b.originals.replaceState, b.originals.replaceState, b.originals.fetch)
\* the cleanup's restore of the captured functions
RestoreOriginals(b) ==
  Refs(b.originals.replaceState, b.originals.pushState, b.originals.fetch)

\* a cleanup whose external-link branch forgets observer.disconnect()
cleanupFlagBranchKeepsObserver(b, obs, ls) ==
  IF b.enableExternalLinks
  THEN [observers |-> obs, clickListeners |-> ls \ {b.id}]
  ELSE [observers |-> obs \ {b.id}, clickListeners |-> ls]
\* the two cleanups: with enableExternalLinks the click listener is removed
\* and the observer disconnected, without it the observer is disconnected
cleanup(b, obs, ls) ==
  IF b.enableExternalLinks
  THEN [observers |-> obs \ {b.id}, clickListeners |-> ls \ {b.id}]
  ELSE [observers |-> obs \ {b.id}, clickListeners |-> ls]

BootStepOf(op, inst, input) == [op |-> op, inst |-> inst, input |-> input]

\* the effect of ChatGPTBootstrap
BootMount(i, flag) ==
  /\ ~boots[i].mounted
  /\ IF ~isChatGPTIframe(openai)
     THEN /\ boots' = [boots EXCEPT ![i] =
                 [Unmounted EXCEPT !.mounted = TRUE, !.enableExternalLinks = flag,
                                   !.before = CurrentRefs]]
          /\ UNCHANGED <<historyReplaceState, historyPushState, windowFetch,
                         installs, observers, clickListeners>>
     ELSE /\ installs < MaxInstalls
          /\ LET id == installs + 1
                 w == Wrapper(i, id)
             IN /\ installs' = id
                /\ boots' = [boots EXCEPT ![i] =
                     [mounted |-> TRUE, enableExternalLinks |-> flag, id |-> id,
                      originals |-> CurrentRefs, before |-> CurrentRefs]]
                /\ historyReplaceState' = Wrap(historyReplaceState, w)
                /\ historyPushState' = Wrap(historyPushState, w)
                /\ windowFetch' = Wrap(windowFetch, w)
                /\ observers' = observers \cup {id}
                /\ clickListeners' = IF flag THEN clickListeners \cup {id}
                                     ELSE clickListeners
  /\ nativeCalls' = <<>>
  /\ lastClick' = NoClick
  /\ bootStep' = BootStepOf("mount", i, flag)
  /\ UNCHANGED <<openai, urlVars, bridgeVars, widgetVars, pureVars, guardVars, nested, baseUrl, location>>

\* the cleanup the effect returned, if it returned one
BootUnmount(i) ==
  /\ boots[i].mounted
  /\ IF boots[i].id = 0
     THEN UNCHANGED <<historyReplaceState, historyPushState, windowFetch,
                      observers, clickListeners>>
     ELSE LET restored == RestoreOriginals(boots[i])
              released == cleanup(boots[i], observers, clickListeners)
          IN /\ clickListeners' = released.clickListeners
             /\ observers' = released.observers
             /\ historyReplaceState' = restored.replaceState
             /\ historyPushState' = restored.pushState
             /\ windowFetch' = restored.fetch
  /\ boots' = [boots EXCEPT ![i] = Unmounted]
  /\ nativeCalls' = <<>>
  /\ lastClick' = NoClick
  /\ bootStep' = BootStepOf("unmount", i, boots[i])
  /\ UNCHANGED <<openai, urlVars, bridgeVars, widgetVars, pureVars, guardVars, nested, baseUrl, location,
                 installs>>

NativeCall(fn, args) == [fn |-> fn, args |-> args]

\* the page calls history.pushState / history.replaceState
HistoryCall(fn, call) ==
  LET f == IF fn = "pushState" THEN historyPushState ELSE historyReplaceState
      out == CallHistory(f.wrappers, call, location)
      threw == out = HistoryThrown
  IN /\ nativeCalls' = IF threw THEN <<>> ELSE <<NativeCall(f.native, out)>>
     /\ location' = IF threw THEN location ELSE NativeHistory(out, location)
     /\ lastClick' = NoClick
     /\ bootStep' = BootStepOf("history", 0,
                      [call |-> call, via |-> f, loc |-> location, threw |-> threw])
     /\ UNCHANGED <<openai, urlVars, bridgeVars, widgetVars, pureVars, guardVars, nested, baseUrl,
                    historyReplaceState, historyPushState, windowFetch, boots,
                    installs, observers, clickListeners>>

\* the page calls window.fetch
FetchCall(call) ==
  LET out == CallFetch(windowFetch.wrappers, call, location, baseUrl)
      threw == out = FetchThrown
  IN /\ nativeCalls' = IF threw THEN <<>> ELSE <<NativeCall(windowFetch.native, out)>>
     /\ lastClick' = NoClick
     /\ bootStep' = BootStepOf("fetch", 0,
                      [call |-> call, via |-> windowFetch, threw |-> threw])
     /\ UNCHANGED <<openai, urlVars, bridgeVars, widgetVars, pureVars, guardVars, nested, baseUrl, location,
                    historyReplaceState, historyPushState, windowFetch, boots,
                    installs, observers, clickListeners>>

\* the user clicks an element
Click(a) ==
  /\ lastClick' = ClickDispatch(Cardinality(clickListeners), a, openai, location,
                                baseUrl.origin)
  /\ nativeCalls' = <<>>
  /\ bootStep' = BootStepOf("click", 0, a)
  /\ UNCHANGED <<openai, urlVars, bridgeVars, widgetVars, pureVars, guardVars, nested, baseUrl, location,
                 historyReplaceState, historyPushState, windowFetch, boots,
                 installs, observers, clickListeners>>


\* the inputs the page and the user supply
BaseUrls == {UrlOf(AppOrigin, "/base", "", "")}
HistoryUrls ==
  {UrlArg(Null, EmptyString), UrlArg(Undefined, EmptyString),
   UrlArg("string", EmptyString),
   UrlArg("string", UrlOf("", "/p", "?q=1", "#h")),
   UrlArg("string", UrlOf("", "", "?q=1", "")),
   UrlArg("string", UrlOf(DocOrigin, "", "", "")),
   UrlArg("string", UrlOf(OtherOrigin, "/p", "", "#h")),
   UrlArg("URL", UrlOf(DocOrigin, "/p", "?q=1", "#h")),
   UrlArg("string", Malformed)}
HistoryCalls == {HistoryCallOf("s1", "", u) : u \in HistoryUrls}
\* replaceState, the same code, is called with fewer of them
ReplaceCalls ==
  {HistoryCallOf("s1", "", u) :
     u \in {UrlArg(Null, EmptyString), UrlArg("string", UrlOf("", "/p", "?q=1", "#h")),
            UrlArg("string", UrlOf(OtherOrigin, "/p", "", "#h")), UrlArg("string", Malformed)}}
FetchInputs ==
  {FetchInput("URL", UrlOf(DocOrigin, "/p", "?q=1", ""), "unset"),
   FetchInput("URL", UrlOf(OtherOrigin, "/p", "", ""), "unset"),
   FetchInput("string", UrlOf("", "/p", "?q=1", "#h"), "unset"),
   FetchInput("string", UrlOf(OtherOrigin, "/p", "?q=1", ""), "unset"),
   FetchInput("Request", UrlOf(DocOrigin, "/p", "", ""), "POST"),
   FetchInput("Request", UrlOf(OtherOrigin, "/p", "", ""), "POST"),
   FetchInput("other", EmptyString, "unset"),
   FetchInput("string", Malformed, "unset")}
FetchInits == {NoInit, InitOf("POST", "same-origin")}
FetchCalls ==
  {FetchCallOf(i, NoInit) : i \in FetchInputs}
    \cup {FetchCallOf(i, InitOf("POST", "same-origin")) :
            i \in {j \in FetchInputs : j.shape = "string"}}
Anchors ==
  {Anchor(FALSE, EmptyString), Anchor(TRUE, EmptyString),
   Anchor(TRUE, UrlOf(DocOrigin, "/p", "", "")),
   Anchor(TRUE, UrlOf(AppOrigin, "/p", "?q=1", "")),
   Anchor(TRUE, UrlOf(OtherOrigin, "/p", "", "#h")),
   Anchor(TRUE, Malformed)}

BootInit ==
  /\ PureIdle
  /\ GuardIdle
  /\ UrlIdle
  /\ BridgeIdle
  /\ WidgetIdle
  /\ openai \in {AbsentHost, HostWith(NoGlobals, Methods),
                 HostWith(NoGlobals, Methods \ {"openExternal"})}
  /\ nested \in BOOLEAN
  /\ baseUrl \in BaseUrls
  /\ location = UrlOf(DocOrigin, "/", "", "")
  \* the functions are native, or (tried with the full host) already wrapped
  \* by another script
  /\ \E ws \in IF openai = HostWith(NoGlobals, Methods) THEN {<<>>, <<ThirdParty>>}
               ELSE {<<>>} :
       /\ historyReplaceState = FunctionRef("replaceState", ws)
       /\ historyPushState = FunctionRef("pushState", ws)
       /\ windowFetch = FunctionRef("fetch", ws)
  /\ boots = [i \in BootIds |-> Unmounted]
  /\ installs = 0
  /\ observers = {}
  /\ clickListeners = {}
  /\ nativeCalls = <<>>
  /\ lastClick = NoClick
  /\ bootStep = BootStepOf("init", 0, 0)

BootNext ==
  \/ \E i \in BootIds, flag \in BOOLEAN : BootMount(i, flag)
  \/ \E i \in BootIds : BootUnmount(i)
  \/ \E call \in HistoryCalls : HistoryCall("pushState", call)
  \/ \E call \in ReplaceCalls : HistoryCall("replaceState", call)
  \/ \E call \in FetchCalls : FetchCall(call)
  \/ \E a \in Anchors : Click(a)

SpecBoot == BootInit /\ [][BootNext]_vars


\* C6: a mounted ChatGPTBootstrap has its patches, its observer and (flag on)
\* its click listener installed exactly when the window is nested and
\* window.openai is present; otherwise the three functions are the references
\* in place before it mounted and it holds no observer and no click listener.
C6_PatchesOnlyWhenNestedAndHostPresent ==
  \A i \in BootIds :
    boots[i].mounted =>
      IF nested /\ openai.present
      THEN /\ boots[i].id # 0
           /\ boots[i].id \in observers
           /\ boots[i].enableExternalLinks <=> boots[i].id \in clickListeners
           /\ (bootStep.op = "mount" /\ bootStep.inst = i) =>
                /\ Last(historyPushState.wrappers) = Wrapper(i, boots[i].id)
                /\ Last(historyReplaceState.wrappers) = Wrapper(i, boots[i].id)
                /\ Last(windowFetch.wrappers) = Wrapper(i, boots[i].id)
      ELSE /\ boots[i].id = 0
           /\ CurrentRefs = boots[i].before
           /\ ~Patched(historyPushState)
           /\ ~Patched(historyReplaceState)
           /\ ~Patched(windowFetch)
           /\ observers = {}
           /\ clickListeners = {}

\* a component is mounted in a nested window that has no host object
C6_Witness ==
  /\ bootStep.op = "mount"
  /\ boots[bootStep.inst].mounted
  /\ nested
  /\ ~openai.present

\* C7: after the unmount of a ChatGPTBootstrap whose gate fired, with either
\* value of enableExternalLinks, history.replaceState, history.pushState and
\* window.fetch are the very references in place just before it mounted, and
\* its observer and click listener are gone.
C7_TeardownRestoresPreMountReferences ==
  (bootStep.op = "unmount" /\ bootStep.input.id # 0) =>
    /\ CurrentRefs = bootStep.input.before
    /\ bootStep.input.id \notin observers
    /\ bootStep.input.id \notin clickListeners

\* a single patched component, mounted over another script's wrappers, unmounts
C7_Witness ==
  /\ bootStep.op = "unmount"
  /\ bootStep.input.id # 0
  /\ bootStep.input.enableExternalLinks
  /\ \A i \in BootIds : ~boots[i].mounted
  /\ historyPushState = FunctionRef("pushState", <<ThirdParty>>)
  /\ historyReplaceState = FunctionRef("replaceState", <<ThirdParty>>)

\* C8: a call to the patched history.pushState or history.replaceState reaches
\* the original function of the same name once, with the caller's state and
\* unused arguments and with a URL string that has no origin and is the
\* pathname, search and hash of the argument resolved against the location
\* (null and undefined resolve like the empty string).  The argument is a URL
\* that can be resolved.
C8_HistoryForwardsPathSearchHash ==
  (bootStep.op = "history" /\ Patched(bootStep.input.via)
     /\ bootStep.input.call.url.ref # Malformed) =>
    LET call == bootStep.input.call
        u == ResolveUrl(IF call.url.kind \in {Null, Undefined} THEN EmptyString
                        ELSE call.url.ref, bootStep.input.loc)
    IN /\ Len(nativeCalls) = 1
       /\ nativeCalls[1].fn = bootStep.input.via.native
       /\ nativeCalls[1].args.state = call.state
       /\ nativeCalls[1].args.unused = call.unused
       /\ nativeCalls[1].args.url.kind = "string"
       /\ nativeCalls[1].args.url.ref.origin = ""
       /\ nativeCalls[1].args.url.ref.pathname = u.pathname
       /\ nativeCalls[1].args.url.ref.search = u.search
       /\ nativeCalls[1].args.url.ref.hash = u.hash

\* the patched pushState is called with an absolute URL of another origin
C8_Witness ==
  /\ bootStep.op = "history"
  /\ Patched(bootStep.input.via)
  /\ bootStep.input.via.native = "pushState"
  /\ bootStep.input.call.url.kind = "string"
  /\ bootStep.input.call.url.ref.origin = OtherOrigin
  /\ nativeCalls[1].args.url.ref = UrlOf("", "/p", "", "#h")

FetchTarget(input, loc) ==
  IF input.shape = "URL" THEN input.url ELSE ResolveUrl(input.url, loc)

\* C9: a call to the patched window.fetch reaches the original fetch once;
\* when the input is a URL object, a string or a Request whose target has the
\* document's origin, it arrives as the BaseUrl's origin with the target's
\* pathname, search and hash and with mode 'cors' in the init; when the target
\* has another origin, or the input has another shape, input and init arrive
\* as the caller gave them.  A string input is a URL that can be resolved.
C9_FetchRewritesSameOriginOnly ==
  (bootStep.op = "fetch" /\ Patched(bootStep.input.via)
     /\ bootStep.input.call.input.url # Malformed) =>
    LET call == bootStep.input.call
        recognized == call.input.shape \in {"URL", "string", "Request"}
        url == FetchTarget(call.input, location)
    IN /\ Len(nativeCalls) = 1
       /\ nativeCalls[1].fn = "fetch"
       /\ IF recognized /\ url.origin = location.origin
          THEN /\ nativeCalls[1].args.input.url.origin = baseUrl.origin
               /\ nativeCalls[1].args.input.url.pathname = url.pathname
               /\ nativeCalls[1].args.input.url.search = url.search
               /\ nativeCalls[1].args.input.url.hash = url.hash
               /\ nativeCalls[1].args.init.mode = "cors"
          ELSE nativeCalls[1].args = call

\* a relative string, which has the document's origin, is fetched with an init
C9_Witness ==
  /\ bootStep.op = "fetch"
  /\ Patched(bootStep.input.via)
  /\ bootStep.input.call.input = FetchInput("string", UrlOf("", "/p", "?q=1", "#h"), "unset")
  /\ bootStep.input.call.init = InitOf("POST", "same-origin")
  /\ nativeCalls[1].args.input.url = UrlOf(AppOrigin, "/p", "?q=1", "#h")

\* the method fetch(input, init) sends with: the init's, else the Request's,
\* else GET (headers and body follow the same rule)
RequestMethod(call) ==
  IF call.init.given /\ call.init.method # "unset" THEN call.init.method
  ELSE IF call.input.shape = "Request" THEN call.input.method
  ELSE "GET"

\* C35 - the fetch rewrite keeps the rest of the request: a call to the
\* patched fetch with a URL object, a string or a Request whose target has
\* the document's origin reaches the original fetch with the method (and so
\* the headers and body) of the caller's request.
C35_FetchRewriteKeepsRequest ==
  (bootStep.op = "fetch" /\ Patched(bootStep.input.via)
     /\ bootStep.input.call.input.shape \in {"URL", "string", "Request"}
     /\ bootStep.input.call.input.url # Malformed
     /\ FetchTarget(bootStep.input.call.input, location).origin = location.origin) =>
    /\ Len(nativeCalls) = 1
    /\ RequestMethod(nativeCalls[1].args) = RequestMethod(bootStep.input.call)

ClickedHref == bootStep.op = "click" /\ clickListeners # {} /\ bootStep.input.inAnchor
                 /\ bootStep.input.href # EmptyString
                 /\ bootStep.input.href # Malformed
External(href) == href.origin # location.origin /\ href.origin # baseUrl.origin

NestedTornDownInReverse ==
  /\ bootStep.op = "unmount"
  /\ bootStep.input.id = 1
  /\ installs >= 2
  /\ \A i \in BootIds : boots[i].id = 0

\* C30 - nested interposers: after two instances were installed one after
\* the other and torn down in the reverse order, history.pushState,
\* history.replaceState and window.fetch are the references in place before
\* the first install, with no wrapper of either instance left in them.
C30_NestedTeardownRestoresFirstReferences ==
  NestedTornDownInReverse =>
    /\ CurrentRefs = bootStep.input.before
    /\ \A f \in {historyReplaceState, historyPushState, windowFetch} :
         \A k \in 1..Len(f.wrappers) : f.wrappers[k] = ThirdParty

\* the nested teardown happened over another script's wrappers
C30_Witness ==
  /\ NestedTornDownInReverse
  /\ windowFetch = FunctionRef("fetch", <<ThirdParty>>)

\* the browser primitives, listeners and observers ChatGPTBootstrap can touch
Primitives == <<historyReplaceState, historyPushState, windowFetch, observers,
                clickListeners>>

\* C24 - complete teardown: an unmount of an instance that installed its
\* patches leaves its observer disconnected and its click listener
\* unregistered, whatever its enableExternalLinks; a mount and an unmount of
\* an instance whose gate did not fire change no primitive, listener or
\* observer.
C24_CompleteTeardown ==
  [][\A i \in BootIds :
       /\ (boots[i].mounted /\ ~boots'[i].mounted /\ boots[i].id # 0)
            => (boots[i].id \notin observers' /\ boots[i].id \notin clickListeners')
       /\ (boots[i].mounted /\ ~boots'[i].mounted /\ boots[i].id = 0)
            => UNCHANGED Primitives
       /\ (~boots[i].mounted /\ boots'[i].mounted /\ boots'[i].id = 0)
            => UNCHANGED Primitives]_vars

\* an instance with external links on was unmounted while another instance's
\* observer and listener are still there
C24_Witness ==
  /\ bootStep.op = "unmount"
  /\ bootStep.input.id # 0 /\ bootStep.input.enableExternalLinks
  /\ observers # {} /\ clickListeners # {}

\* C20: a malformed URL met by a patch is handled inside it: the patched
\* pushState, replaceState and fetch do not throw to their caller and pass the
\* caller's arguments on to the original function (the rewrite is
\* abandoned); a click on an anchor with a malformed href proceeds normally.
C20_MalformedUrlHandledLocally ==
  /\ (bootStep.op = "history" /\ Patched(bootStep.input.via)
        /\ bootStep.input.call.url.ref = Malformed) =>
       /\ ~bootStep.input.threw
       /\ nativeCalls = <<NativeCall(bootStep.input.via.native, bootStep.input.call)>>
  /\ (bootStep.op = "fetch" /\ Patched(bootStep.input.via)
        /\ bootStep.input.call.input.url = Malformed) =>
       /\ ~bootStep.input.threw
       /\ nativeCalls = <<NativeCall("fetch", bootStep.input.call)>>
  /\ (bootStep.op = "click" /\ clickListeners # {} /\ bootStep.input.href = Malformed) =>
       lastClick = NoClick

(* ----------------------------------------------------------------------- *)
(* The functions without state, each applied to inputs of bounded size.     *)
(* ----------------------------------------------------------------------- *)
\* longest query string of the round trip, in key=value pairs
MaxQueryLen == 3
RoundTripKeys == {"x", "y"}
RoundTripVals == {"", "1", "2"}
RoundTripQueries ==
  SeqsUpTo({<<k, v>> : k \in RoundTripKeys, v \in RoundTripVals}, MaxQueryLen)

\* a call: the function and its arguments; its result, once it has returned
FnCallOf(fn, args) == [fn |-> fn, args |-> args]
NotReturned == [returned |-> FALSE, value |-> Undefined]
Returned(value) == [returned |-> TRUE, value |-> value]
Pending(fn, args) == fnCall = FnCallOf(fn, args) /\ ~fnResult.returned
Called(fns) == fnCall.fn \in fns /\ fnResult.returned
OthersIdle == UrlIdle /\ BridgeIdle /\ WidgetIdle /\ BootIdle /\ GuardIdle

\* the app writes the query as a record (second effect), the host hands the
\* record back and the first effect expands it into a query string
QueryRoundTrip(q) ==
  LET urlData == UrlDataFrom("/a", q)
  IN /\ Pending("queryRoundTrip", q)
     /\ fnResult' = Returned([record |-> urlData, query |-> TargetUrl(urlData).search])
     /\ UNCHANGED <<openai, urlVars, bridgeVars, widgetVars, bootVars, guardVars, fnCall>>

\* the values of key in a query string, in order
RECURSIVE ValuesOf(_, _)
ValuesOf(params, key) ==
  IF params = <<>> THEN <<>>
  ELSE (IF Head(params)[1] = key THEN <<Head(params)[2]>> ELSE <<>>)
       \o ValuesOf(Tail(params), key)

ValueInRecord(entries, key) ==
  LET i == IndexOfKey(entries, key, 1)
  IN IF i = 0 THEN Undefined ELSE entries[i][2]

\* C11: for every query string, the record written to the host maps a key
\* that appears more than once to the list of all its values in order and a
\* key that appears once to its string, and the query string expanded from
\* that record has, for every key, the same values in the same order.
C11_QueryRoundTripKeepsValues ==
  Called({"queryRoundTrip"}) =>
    \A key \in RoundTripKeys :
      LET vs == ValuesOf(fnCall.args, key)
      IN /\ ValuesOf(fnResult.value.query, key) = vs
         /\ Len(vs) > 1 =>
              ValueInRecord(fnResult.value.record.searchParams, key) = ArrValue(vs)
         /\ Len(vs) = 1 =>
              ValueInRecord(fnResult.value.record.searchParams, key) = StrValue(vs[1])

(* --------------------- useChatGPT: the four writes ---------------------- *)
\* what a call came to: "returned" or "thrown" for a plain function,
\* "resolved" or "rejected" for an async one; its value; the host calls made
ApiResult(settled, value, calls) == [settled |-> settled, value |-> value, calls |-> calls]
EmptyToolResponse ==
  [t |-> "CallToolResponse", content |-> <<>>, structuredContent |-> NullV]
HostToolResponse ==
  [t |-> "CallToolResponse", content |-> <<"text">>, structuredContent |-> NullV]
DisplayModeResult(mode) == [t |-> "displayMode", mode |-> mode]
TypeError == [t |-> "TypeError"]
\* how the host's own method ends
HostOutcomes == {"ok", "fails"}
Settle(hostOutcome, ok, failed) == IF hostOutcome = "ok" THEN ok ELSE failed

\* a send that also calls the deprecated method when the host has it
sendFollowUpMessageBoth(host, prompt, hostOutcome) ==
  ApiResult(IF Has(host, "sendFollowUpMessage") \/ Has(host, "sendMessage")
            THEN Settle(hostOutcome, "resolved", "rejected") ELSE "resolved",
            Undef,
            (IF Has(host, "sendFollowUpMessage")
             THEN <<HostCall("sendFollowUpMessage", prompt)>> ELSE <<>>)
            \o (IF Has(host, "sendMessage")
                THEN <<HostCall("sendMessage", prompt)>> ELSE <<>>))

\* sendFollowUpMessage (also returned as sendMessage)
sendFollowUpMessage(host, prompt, hostOutcome) ==
  IF Has(host, "sendFollowUpMessage")
  THEN ApiResult(Settle(hostOutcome, "resolved", "rejected"), Undef,
                 <<HostCall("sendFollowUpMessage", prompt)>>)
  ELSE IF Has(host, "sendMessage")
  THEN ApiResult(Settle(hostOutcome, "resolved", "rejected"), Undef,
                 <<HostCall("sendMessage", prompt)>>)
  ELSE ApiResult("resolved", Undef, <<>>)

openExternal(host, href, hostOutcome) ==
  IF Has(host, "openExternal")
  THEN ApiResult(Settle(hostOutcome, "returned", "thrown"), Undef,
                 <<HostCall("openExternal", href)>>)
  ELSE ApiResult("returned", Undef, <<>>)

\* callTool that reads window.openai.callTool without the optional chaining
callToolUnguarded(host, name, hostOutcome) ==
  IF ~host.present THEN ApiResult("rejected", TypeError, <<>>)
  ELSE IF Has(host, "callTool")
  THEN ApiResult(Settle(hostOutcome, "resolved", "rejected"),
                 Settle(hostOutcome, HostToolResponse, Undef),
                 <<HostCall("callTool", name)>>)
  ELSE ApiResult("resolved", EmptyToolResponse, <<>>)

callTool(host, name, hostOutcome) ==
  IF Has(host, "callTool")
  THEN ApiResult(Settle(hostOutcome, "resolved", "rejected"),
                 Settle(hostOutcome, HostToolResponse, Undef),
                 <<HostCall("callTool", name)>>)
  ELSE ApiResult("resolved", EmptyToolResponse, <<>>)

requestDisplayMode(host, mode, hostOutcome) ==
  IF Has(host, "requestDisplayMode")
  THEN ApiResult(Settle(hostOutcome, "resolved", "rejected"),
                 Settle(hostOutcome, DisplayModeResult(mode), Undef),
                 <<HostCall("requestDisplayMode", mode)>>)
  ELSE ApiResult("resolved", DisplayModeResult("inline"), <<>>)

ApiOps == {"sendFollowUpMessage", "openExternal", "callTool", "requestDisplayMode"}
ApiArgs(op) ==
  IF op = "requestDisplayMode" THEN {"inline", "pip", "fullscreen"}
  ELSE IF op = "openExternal" THEN {"https://other.example/p"}
  ELSE {"a", "b"}

\* a component calls one of the functions useChatGPT returned
ApiWrite(op, arg, hostOutcome) ==
  /\ Pending(op, <<arg, hostOutcome>>)
  /\ fnResult' = Returned(
       CASE op = "sendFollowUpMessage" -> sendFollowUpMessage(openai, arg, hostOutcome)
         [] op = "openExternal" -> openExternal(openai, arg, hostOutcome)
         [] op = "callTool" -> callTool(openai, arg, hostOutcome)
         [] op = "requestDisplayMode" -> requestDisplayMode(openai, arg, hostOutcome))
  /\ UNCHANGED <<openai, urlVars, bridgeVars, widgetVars, bootVars, guardVars, fnCall>>

\* C12: without a host object, sendFollowUpMessage and openExternal make no
\* host call and end normally, callTool resolves to the response with empty
\* content, requestDisplayMode resolves to {mode: 'inline'}; none of the four
\* throws or rejects.
C12_AbsentHostWritesDegrade ==
  (Called(ApiOps) /\ ~openai.present) =>
    /\ fnResult.value.calls = <<>>
    /\ fnResult.value.settled = IF fnCall.fn = "openExternal" THEN "returned" ELSE "resolved"
    /\ fnCall.fn \in {"sendFollowUpMessage", "openExternal"} => fnResult.value.value = Undef
    /\ fnCall.fn = "callTool" =>
         /\ fnResult.value.value.t = "CallToolResponse"
         /\ fnResult.value.value.content = <<>>
    /\ fnCall.fn = "requestDisplayMode" => fnResult.value.value = DisplayModeResult("inline")

\* C28 - send compatibility fallback: a send calls the host's
\* sendFollowUpMessage with the message text when the host has that method,
\* the deprecated sendMessage with the text only when it has not, and never
\* both.
C28_SendFallsBackToDeprecated ==
  Called({"sendFollowUpMessage"}) =>
    LET prompt == fnCall.args[1]
        calls == fnResult.value.calls
    IN /\ Has(openai, "sendFollowUpMessage")
            => calls = <<HostCall("sendFollowUpMessage", prompt)>>
       /\ (~Has(openai, "sendFollowUpMessage") /\ Has(openai, "sendMessage"))
            => calls = <<HostCall("sendMessage", prompt)>>
       /\ (~Has(openai, "sendFollowUpMessage") /\ ~Has(openai, "sendMessage"))
            => calls = <<>>
       /\ Len(calls) <= 1

\* a send on a host that has both methods, and it used the structured one
C28_Witness ==
  /\ Called({"sendFollowUpMessage"})
  /\ Has(openai, "sendFollowUpMessage") /\ Has(openai, "sendMessage")
  /\ fnResult.value.calls = <<HostCall("sendFollowUpMessage", fnCall.args[1])>>

\* callTool has been called without a host object
C12_Witness ==
  /\ Called({"callTool"})
  /\ ~openai.present
  /\ fnResult.value.value = EmptyToolResponse

(* ------------------------------ CORS proxy ------------------------------ *)
\* status of the preflight response
PreflightStatus == 204
HeaderNames == {"Access-Control-Allow-Origin", "Access-Control-Allow-Methods",
                "Access-Control-Allow-Headers", "Access-Control-Max-Age", "Content-Type"}
\* the value of a header a response does not have
NoHeader == "(none)"
NoHeaders == [h \in HeaderNames |-> NoHeader]
Response(status, body, headers) == [status |-> status, body |-> body, headers |-> headers]
\* response.headers.set(name, value)
HeadersSet(response, name, value) == [response EXCEPT !.headers[name] = value]

\* new NextResponse(null, { status: 204 }) with the four headers
PreflightResponse ==
  HeadersSet(HeadersSet(HeadersSet(HeadersSet(
    Response(PreflightStatus, Null, NoHeaders),
    "Access-Control-Allow-Origin", "*"),
    "Access-Control-Allow-Methods", "GET,POST,PUT,DELETE,OPTIONS"),
    "Access-Control-Allow-Headers", "*"),
    "Access-Control-Max-Age", "86400")

\* the three headers set on every other response
AddCorsHeaders(response) ==
  HeadersSet(HeadersSet(HeadersSet(response,
    "Access-Control-Allow-Origin", "*"),
    "Access-Control-Allow-Methods", "GET,POST,PUT,DELETE,OPTIONS"),
    "Access-Control-Allow-Headers", "*")

\* NextResponse.next(): continue to the route, no body of its own
NextResponseNext == Response(200, "(next)", NoHeaders)
ProxyResult(response, handlerCalls) == [response |-> response, handlerCalls |-> handlerCalls]

chatGPTProxy(request) ==
  IF request.method = "OPTIONS" THEN ProxyResult(PreflightResponse, 0)
  ELSE ProxyResult(AddCorsHeaders(NextResponseNext), 0)

\* customHandler: given or not, and the response it returns
NoHandler == [given |-> FALSE, response |-> NextResponseNext]
Handler(response) == [given |-> TRUE, response |-> response]

\* a proxy that runs the custom handler before it looks at the method
proxyHandlerFirst(customHandler, request) ==
  LET calls == IF customHandler.given THEN 1 ELSE 0
  IN IF request.method = "OPTIONS" THEN ProxyResult(PreflightResponse, calls)
     ELSE ProxyResult(AddCorsHeaders(customHandler.response), calls)

\* a proxy that answers with a response of its own
proxyOwnResponse(customHandler, request) ==
  IF request.method = "OPTIONS" THEN ProxyResult(PreflightResponse, 0)
  ELSE ProxyResult(AddCorsHeaders(NextResponseNext), IF customHandler.given THEN 1 ELSE 0)

\* the function createChatGPTProxy(customHandler) returns
proxy(customHandler, request) ==
  IF request.method = "OPTIONS" THEN ProxyResult(PreflightResponse, 0)
  ELSE ProxyResult(AddCorsHeaders(IF customHandler.given THEN customHandler.response
                                  ELSE NextResponseNext),
                   IF customHandler.given THEN 1 ELSE 0)

RequestMethods == {"GET", "POST", "PUT", "DELETE", "HEAD", "OPTIONS"}
Requests == {[method |-> m, path |-> p] : m \in RequestMethods, p \in {"/", "/api"}}
HandlerResponses ==
  {Response(200, "body", [NoHeaders EXCEPT !["Content-Type"] = "text/html"]),
   Response(404, "not found", NoHeaders),
   Response(200, "body", [NoHeaders EXCEPT !["Access-Control-Allow-Origin"] = "https://a.example",
                                           !["Access-Control-Max-Age"] = "600"])}
Handlers == {NoHandler} \cup {Handler(r) : r \in HandlerResponses}

ProxyRequest(request) ==
  /\ Pending("chatGPTProxy", [handler |-> NoHandler, request |-> request])
  /\ fnResult' = Returned(chatGPTProxy(request))
  /\ UNCHANGED <<openai, urlVars, bridgeVars, widgetVars, bootVars, guardVars, fnCall>>

CreatedProxyRequest(customHandler, request) ==
  /\ Pending("createChatGPTProxy", [handler |-> customHandler, request |-> request])
  /\ fnResult' = Returned(proxy(customHandler, request))
  /\ UNCHANGED <<openai, urlVars, bridgeVars, widgetVars, bootVars, guardVars, fnCall>>

ProxyCalled == Called({"chatGPTProxy", "createChatGPTProxy"})

\* C15: chatGPTProxy and every proxy made by createChatGPTProxy answer an
\* OPTIONS request with status 204 and the headers Allow-Origin '*',
\* Allow-Methods 'GET,POST,PUT,DELETE,OPTIONS', Allow-Headers '*' and
\* Max-Age '86400', without calling the custom handler.
C15_PreflightAnswered ==
  (ProxyCalled /\ fnCall.args.request.method = "OPTIONS") =>
    /\ fnResult.value.response.status = 204
    /\ fnResult.value.response.headers["Access-Control-Allow-Origin"] = "*"
    /\ fnResult.value.response.headers["Access-Control-Allow-Methods"] = "GET,POST,PUT,DELETE,OPTIONS"
    /\ fnResult.value.response.headers["Access-Control-Allow-Headers"] = "*"
    /\ fnResult.value.response.headers["Access-Control-Max-Age"] = "86400"
    /\ fnResult.value.handlerCalls = 0

\* a proxy made with a custom handler has answered an OPTIONS request
C15_Witness ==
  /\ Called({"createChatGPTProxy"})
  /\ fnCall.args.handler.given
  /\ fnCall.args.request.method = "OPTIONS"
  /\ fnResult.value.response.status = 204

HandlerResponseOf(call) ==
  IF call.args.handler.given THEN call.args.handler.response ELSE NextResponseNext

Unset == "(unset)"
Truthy(v) == v # Unset /\ v # ""
Localhost == "http://localhost:3000"
\* `https://${host}`
Https(host) ==
  CASE host = "app.vercel.app" -> "https://app.vercel.app"
    [] host = "app-git-main.vercel.app" -> "https://app-git-main.vercel.app"
    [] host = "app-abc123.vercel.app" -> "https://app-abc123.vercel.app"
    [] host = "" -> "https://"
    [] host = Unset -> "https://undefined"

Envs ==
  [NEXT_PUBLIC_WEBSITE_URL : {Unset, "", "https://app.example"},
   NODE_ENV : {Unset, "development", "production", "test"},
   VERCEL_ENV : {Unset, "production", "preview", "development"},
   VERCEL_PROJECT_PRODUCTION_URL : {Unset, "", "app.vercel.app"},
   VERCEL_BRANCH_URL : {Unset, "", "app-git-main.vercel.app"},
   VERCEL_URL : {Unset, "app-abc123.vercel.app"}]

\* a resolution that looks at the development mode before the override
getBaseURLDevelopmentFirst(env) ==
  IF env.NODE_ENV = "development" THEN Localhost
  ELSE IF Truthy(env.NEXT_PUBLIC_WEBSITE_URL) THEN env.NEXT_PUBLIC_WEBSITE_URL
  ELSE IF env.VERCEL_ENV = "production" THEN Https(env.VERCEL_PROJECT_PRODUCTION_URL)
  ELSE IF Truthy(env.VERCEL_BRANCH_URL) \/ Truthy(env.VERCEL_URL)
  THEN Https(IF Truthy(env.VERCEL_BRANCH_URL) THEN env.VERCEL_BRANCH_URL ELSE env.VERCEL_URL)
  ELSE Localhost

getBaseURL(env) ==
  IF Truthy(env.NEXT_PUBLIC_WEBSITE_URL) THEN env.NEXT_PUBLIC_WEBSITE_URL
  ELSE IF env.NODE_ENV = "development" THEN Localhost
  ELSE IF env.VERCEL_ENV = "production" THEN Https(env.VERCEL_PROJECT_PRODUCTION_URL)
  ELSE IF Truthy(env.VERCEL_BRANCH_URL) \/ Truthy(env.VERCEL_URL)
  THEN Https(IF Truthy(env.VERCEL_BRANCH_URL) THEN env.VERCEL_BRANCH_URL ELSE env.VERCEL_URL)
  ELSE Localhost

ResolveBaseURL(env) ==
  /\ Pending("getBaseURL", env)
  /\ fnResult' = Returned(getBaseURL(env))
  /\ UNCHANGED <<openai, urlVars, bridgeVars, widgetVars, bootVars, guardVars, fnCall>>

OriginsOf(env) ==
  {Localhost}
    \cup {u \in {env.NEXT_PUBLIC_WEBSITE_URL} : Truthy(u)}
    \cup {Https(h) : h \in {v \in {env.VERCEL_PROJECT_PRODUCTION_URL, env.VERCEL_BRANCH_URL,
                                   env.VERCEL_URL} : Truthy(v)}}

\* C31: for every environment getBaseURL returns an origin with a scheme and
\* a host, also when the environment is production or preview and the
\* deployment URL variable is not set.
C31_BaseUrlIsAnOrigin ==
  Called({"getBaseURL"}) => fnResult.value \in OriginsOf(fnCall.args)

ConfigFields == {"assetPrefix", "basePath", "baseUrl", "nextConfig"}
NoField == "(absent)"
Configs ==
  [assetPrefix : {NoField, "", "https://cdn.example"},
   basePath : {NoField, "/docs"},
   baseUrl : {NoField, "https://my-custom-domain.com"},
   nextConfig : {NoField, "{}"}]
ConfigEnvs ==
  {env \in Envs : /\ env.NODE_ENV = "production"
                  /\ env.VERCEL_ENV = Unset
                  /\ env.VERCEL_PROJECT_PRODUCTION_URL = Unset
                  /\ env.VERCEL_BRANCH_URL = Unset}

\* a transform that keeps only the fields Next.js knows
withChatGPTKnownFields(nextConfig, env) ==
  [nextConfig EXCEPT !.assetPrefix = IF @ # NoField /\ @ # "" THEN @ ELSE getBaseURL(env),
                     !.baseUrl = NoField, !.nextConfig = NoField]

withChatGPT(nextConfig, env) ==
  [nextConfig EXCEPT !.assetPrefix = IF @ # NoField /\ @ # "" THEN @ ELSE getBaseURL(env)]

WrapConfig(nextConfig, env) ==
  /\ Pending("withChatGPT", [nextConfig |-> nextConfig, env |-> env])
  /\ fnResult' = Returned(withChatGPT(nextConfig, env))
  /\ UNCHANGED <<openai, urlVars, bridgeVars, widgetVars, bootVars, guardVars, fnCall>>

\* C18: every field of the result other than assetPrefix is the same field
\* of the input, absent when it was absent; assetPrefix is present.
C18_OnlyAssetPrefixChanges ==
  Called({"withChatGPT"}) =>
    /\ \A f \in ConfigFields \ {"assetPrefix"} : fnResult.value[f] = fnCall.args.nextConfig[f]
    /\ fnResult.value.assetPrefix # NoField

\* a configuration with other fields has got its assetPrefix
C18_Witness ==
  /\ Called({"withChatGPT"})
  /\ fnCall.args.nextConfig.basePath = "/docs"
  /\ fnCall.args.nextConfig.baseUrl = "https://my-custom-domain.com"
  /\ fnCall.args.nextConfig.assetPrefix = NoField
  /\ fnResult.value.assetPrefix = getBaseURL(fnCall.args.env)

\* C19: when the argument carries baseUrl, the assetPrefix of the result is
\* that baseUrl.
C19_BaseUrlOptionBecomesAssetPrefix ==
  (Called({"withChatGPT"}) /\ fnCall.args.nextConfig.baseUrl # NoField) =>
    fnResult.value.assetPrefix = fnCall.args.nextConfig.baseUrl

(* ----------------------------------------------------------------------- *)
(* One commit of UrlController as a function of what its effects read: the *)
(* tool output, urlKey, the location and the two markers.                  *)
(* ----------------------------------------------------------------------- *)
Markers == AppUrls \cup {NullRef}
UrlRunInputs ==
  {[tout |-> tout, key |-> key, url |-> url, lastGpt |-> lastGpt, lastApp |-> lastApp,
    runSync |-> runSync] :
     tout \in UNION {ToolOutputs(k) : k \in UrlKeys}, key \in UrlKeys, url \in AppUrls,
     lastGpt \in Markers, lastApp \in Markers, runSync \in BOOLEAN}

\* the commit after a change of the tool output, once with debug on and once
\* with debug off
UrlControllerRun(in) ==
  /\ Pending("UrlController", in)
  /\ fnResult' = Returned(
       [debugOn |-> UrlEffects(in.tout, in.key, in.url.pathname, in.url.search,
                               in.lastGpt, in.lastApp, TRUE, in.runSync, TRUE),
        debugOff |-> UrlEffects(in.tout, in.key, in.url.pathname, in.url.search,
                                in.lastGpt, in.lastApp, TRUE, in.runSync, FALSE)])
  /\ UNCHANGED <<openai, urlVars, bridgeVars, widgetVars, bootVars, guardVars, fnCall>>

\* the tool output holds something under urlKey and the first effect ran on it
RanOnRecord ==
  /\ Called({"UrlController"})
  /\ fnCall.args.tout.t = "object" /\ fnCall.args.tout.key = fnCall.args.key

\* the step rule on a target: router.push(target) is called iff the target
\* differs from the current URL and from the marker; the marker becomes the
\* target exactly then
StepRule(target, run) ==
  LET differs == /\ target # CurrentUrl(fnCall.args.url.pathname, fnCall.args.url.search)
                 /\ target # fnCall.args.lastGpt
  IN /\ run.pushes = (IF differs THEN <<target>> ELSE <<>>)
     /\ run.lastChatGPTUrlRef = (IF differs THEN target ELSE fnCall.args.lastGpt)

\* C22 - host-to-app step rule, as claimed: on every change of the URL record
\* in the tool output the router is navigated to the target iff the target
\* differs from the current URL and from the last-host-pushed marker, and the
\* marker is set to the target exactly when it navigates.
C22_StepRuleOnEveryRecord ==
  RanOnRecord =>
    \A run \in {fnResult.value.debugOn, fnResult.value.debugOff} :
      StepRule(TargetUrl(fnCall.args.tout.data), run)

\* C22 - host-to-app step rule, as the code has it: the rule holds for every
\* record with a non-empty pathname; a record whose pathname is empty is
\* ignored (no navigation, marker unchanged).
C22_StepRuleOnRecordWithPathname ==
  RanOnRecord =>
    \A run \in {fnResult.value.debugOn, fnResult.value.debugOff} :
      IF fnCall.args.tout.data.pathname # ""
      THEN StepRule(TargetUrl(fnCall.args.tout.data), run)
      ELSE run.pushes = <<>> /\ run.lastChatGPTUrlRef = fnCall.args.lastGpt

\* a record that navigated although a marker was set
C22_Witness ==
  /\ RanOnRecord
  /\ ~fnCall.args.lastGpt.isNull
  /\ fnResult.value.debugOff.pushes # <<>>

\* C27 - debug non-interference: run on the same tool output, location and
\* markers, the component with debug on and with debug off makes the same
\* router navigations and widget-state writes and leaves the same markers.
C27_DebugDoesNotInterfere ==
  Called({"UrlController"}) =>
    Decisions(fnResult.value.debugOn) = Decisions(fnResult.value.debugOff)

\* a run that navigated and wrote, and logged both with debug on only
C27_Witness ==
  /\ Called({"UrlController"})
  /\ fnResult.value.debugOn.logs = <<"Navigating from ChatGPT", "Syncing to ChatGPT">>
  /\ fnResult.value.debugOff.logs = <<>>
  /\ fnResult.value.debugOn.pushes # <<>> /\ fnResult.value.debugOn.writes # <<>>

(* ----------------------------------------------------------------------- *)
(* The hooks of the earlier revision (hooks/index.ts with                  *)
(* ensureOpenAIObject): every write and every property hook first makes    *)
(* sure window.openai exists.                                              *)
(* ----------------------------------------------------------------------- *)
\* window.openai after ensureOpenAIObject(): an absent object becomes {}
ensureOpenAIObject(host) == IF ~host.present THEN HostWith(NoGlobals, {}) ELSE host

\* sendMessage of the earlier useChatGPT
useChatGPT_sendMessage(host, message) ==
  LET api == ensureOpenAIObject(host)
  IN [openai |-> api,
      result |-> ApiResult("returned", Undef,
                           IF Has(api, "sendMessage")
                           THEN <<HostCall("sendMessage", message)>> ELSE <<>>)]

\* openExternal of the earlier useChatGPT
useChatGPT_openExternal(host, href) ==
  LET api == ensureOpenAIObject(host)
  IN [openai |-> api,
      result |-> ApiResult("returned", Undef,
                           IF Has(api, "openExternal")
                           THEN <<HostCall("openExternal", href)>> ELSE <<>>)]

\* the mount effect of the earlier useWidgetProps / useDisplayMode: the
\* property is redefined on the ensured object and its value is kept
useWidgetProps_effect(host, key) ==
  LET api == ensureOpenAIObject(host)
  IN [openai |-> api, result |-> ApiResult("returned", api.globals[key], <<>>)]

EnsuringOps == {"useChatGPT.sendMessage", "useChatGPT.openExternal", "useWidgetProps"}
EnsuringArgs(op) ==
  IF op = "useChatGPT.sendMessage" THEN {"a", "b"}
  ELSE IF op = "useChatGPT.openExternal" THEN {"https://other.example/p"}
  ELSE {"toolOutput", "theme"}

\* a component uses one of the earlier hooks
EnsuringCall(op, arg) ==
  LET out == CASE op = "useChatGPT.sendMessage" -> useChatGPT_sendMessage(openai, arg)
               [] op = "useChatGPT.openExternal" -> useChatGPT_openExternal(openai, arg)
               [] op = "useWidgetProps" -> useWidgetProps_effect(openai, arg)
  IN /\ Pending(op, <<arg>>)
     /\ openai' = out.openai
     /\ fnResult' = Returned(out.result)
     /\ UNCHANGED <<urlVars, bridgeVars, widgetVars, bootVars, guardVars, fnCall>>

\* C32 - no read or write of the bridge creates the host object: a step of a
\* write operation or of a hook's mount effect that starts with window.openai
\* absent ends with window.openai absent.
C32_BridgeNeverCreatesHostObject ==
  [][(fnCall.fn \in ApiOps \cup EnsuringOps /\ ~openai.present) => ~openai'.present]_vars

(* --------------------- one click, seen by handleClick ------------------ *)
ClickInputs ==
  [a : Anchors, enableExternalLinks : BOOLEAN, hostOutcome : {"ok", "fails"}]

\* a click in a page where ChatGPTBootstrap is installed: the listener is
\* there when enableExternalLinks is set
ClickEvent(in) ==
  /\ Pending("handleClick", in)
  /\ fnResult' = Returned(IF in.enableExternalLinks
                          THEN handleClickTry(in.a, openai, UrlOf(DocOrigin, "/", "", ""),
                                              AppOrigin, in.hostOutcome)
                          ELSE NoClick)
  /\ UNCHANGED <<openai, urlVars, bridgeVars, widgetVars, bootVars, guardVars, fnCall>>

\* C36 - a click is cancelled exactly when it was forwarded: in every run
\* of the click handler preventDefault is called if and only if the host's
\* openExternal was called for that click.
C36_PreventedIffForwarded ==
  Called({"handleClick"}) => (fnResult.value.prevented <=> fnResult.value.opened # <<>>)

PureHosts ==
  {AbsentHost, HostWith(NoGlobals, Methods), HostWith(NoGlobals, {"sendMessage"})}

\* the call that is about to be made
PureInit ==
  /\ OthersIdle
  /\ openai \in PureHosts
  /\ fnResult = NotReturned
  /\ \/ \E q \in RoundTripQueries : fnCall = FnCallOf("queryRoundTrip", q)
     \/ \E op \in ApiOps, hostOutcome \in HostOutcomes :
          \E arg \in ApiArgs(op) : fnCall = FnCallOf(op, <<arg, hostOutcome>>)
     \/ \E customHandler \in Handlers, request \in Requests :
          \E fn \in {"chatGPTProxy", "createChatGPTProxy"} :
            /\ fn = "chatGPTProxy" => customHandler = NoHandler
            /\ fnCall = FnCallOf(fn, [handler |-> customHandler, request |-> request])
     \/ \E op \in EnsuringOps : \E arg \in EnsuringArgs(op) : fnCall = FnCallOf(op, <<arg>>)
     \/ \E in \in ClickInputs : fnCall = FnCallOf("handleClick", in)
     \/ \E env \in Envs : fnCall = FnCallOf("getBaseURL", env)
     \/ \E in \in UrlRunInputs : fnCall = FnCallOf("UrlController", in)
     \/ \E nextConfig \in Configs, env \in ConfigEnvs :
          fnCall = FnCallOf("withChatGPT", [nextConfig |-> nextConfig, env |-> env])

PureNext ==
  \/ fnCall.fn = "queryRoundTrip" /\ QueryRoundTrip(fnCall.args)
  \/ fnCall.fn \in ApiOps /\ ApiWrite(fnCall.fn, fnCall.args[1], fnCall.args[2])
  \/ fnCall.fn \in EnsuringOps /\ EnsuringCall(fnCall.fn, fnCall.args[1])
  \/ fnCall.fn = "handleClick" /\ ClickEvent(fnCall.args)
  \/ fnCall.fn = "chatGPTProxy" /\ ProxyRequest(fnCall.args.request)
  \/ fnCall.fn = "createChatGPTProxy"
       /\ CreatedProxyRequest(fnCall.args.handler, fnCall.args.request)
  \/ fnCall.fn = "getBaseURL" /\ ResolveBaseURL(fnCall.args)
  \/ fnCall.fn = "UrlController" /\ UrlControllerRun(fnCall.args)
  \/ fnCall.fn = "withChatGPT" /\ WrapConfig(fnCall.args.nextConfig, fnCall.args.env)

SpecPure == PureInit /\ [][PureNext]_vars

(* ----------------------------------------------------------------------- *)
(* The root-element attribute guard: the MutationObserver ChatGPTBootstrap *)
(* connects to document.documentElement, the scripts that set and remove   *)
(* attributes, and the browser that queues mutation records and delivers   *)
(* them to the callback in one batch.                                      *)
(* ----------------------------------------------------------------------- *)
\* most records that scripts leave queued before the callback runs
MaxRecords == 2
\* most callbacks followed in a row
MaxCallbacks == 3

MutationRecord(target, attributeName) ==
  [type |-> "attributes", target |-> target, attributeName |-> attributeName]

\* observer.observe(htmlElement, {attributes: true, attributeOldValue: true}):
\* no subtree, so only the root's own attributes are reported
Observed(el) == observers # {} /\ el = RootElement

\* element.removeAttribute(name): an attribute that is there goes and, on an
\* observed element, a record is queued; one that is not there changes nothing
RemoveAttribute(doc, el, name) ==
  IF name \in doc.attributes[el]
  THEN [attributes |-> [doc.attributes EXCEPT ![el] = @ \ {name}],
        records |-> IF Observed(el)
                    THEN Append(doc.records, MutationRecord(el, name))
                    ELSE doc.records]
  ELSE doc

\* a callback without the exception for the hydration marker
RECURSIVE ObserverCallbackNoException(_, _)
ObserverCallbackNoException(mutations, doc) ==
  IF mutations = <<>> THEN doc
  ELSE LET mutation == Head(mutations)
           next == IF mutation.type = "attributes" /\ mutation.target = RootElement
                   THEN RemoveAttribute(doc, RootElement, mutation.attributeName)
                   ELSE doc
       IN ObserverCallbackNoException(Tail(mutations), next)

\* a callback that blanks the attribute, setAttribute(attrName, ''), where
\* the component removes it
RECURSIVE ObserverCallbackBlanks(_, _)
ObserverCallbackBlanks(mutations, doc) ==
  IF mutations = <<>> THEN doc
  ELSE LET mutation == Head(mutations)
           attrName == mutation.attributeName
           next == IF /\ mutation.type = "attributes" /\ mutation.target = RootElement
                      /\ attrName # HydrationMarker
                   THEN [attributes |-> [doc.attributes EXCEPT ![RootElement] = @ \cup {attrName}],
                         records |-> Append(doc.records, MutationRecord(RootElement, attrName))]
                   ELSE doc
       IN ObserverCallbackBlanks(Tail(mutations), next)

\* the MutationObserver callback: mutations.forEach(...)
RECURSIVE ObserverCallback(_, _)
ObserverCallback(mutations, doc) ==
  IF mutations = <<>> THEN doc
  ELSE LET mutation == Head(mutations)
           attrName == mutation.attributeName
           next == IF /\ mutation.type = "attributes" /\ mutation.target = RootElement
                      /\ attrName # HydrationMarker
                   THEN RemoveAttribute(doc, RootElement, attrName)
                   ELSE doc
       IN ObserverCallback(Tail(mutations), next)

\* ChatGPTBootstrap installs its patches: the observer is connected
GuardObserve ==
  /\ observers = {}
  /\ observers' = {1}
  /\ mutationRecords' = <<>>
  /\ touched' = NoAttributes
  /\ guardStep' = "observe"
  /\ callbacks' = 0
  /\ UNCHANGED attributes

\* the cleanup: observer.disconnect() drops the records not yet delivered
GuardDisconnect ==
  /\ observers # {}
  /\ observers' = {}
  /\ mutationRecords' = <<>>
  /\ touched' = NoAttributes
  /\ guardStep' = "disconnect"
  /\ callbacks' = 0
  /\ UNCHANGED attributes

\* a script outside the component adds an attribute or changes its value
ExternalSetAttribute(el, name) ==
  /\ Len(mutationRecords) < MaxRecords
  /\ attributes' = [attributes EXCEPT ![el] = @ \cup {name}]
  /\ mutationRecords' = IF Observed(el)
                        THEN Append(mutationRecords, MutationRecord(el, name))
                        ELSE mutationRecords
  /\ touched' = IF observers # {} THEN [touched EXCEPT ![el] = @ \cup {name}]
                ELSE touched
  /\ guardStep' = "set"
  /\ callbacks' = 0
  /\ UNCHANGED observers

\* a script outside the component removes an attribute
ExternalRemoveAttribute(el, name) ==
  /\ Len(mutationRecords) < MaxRecords
  /\ name \in attributes[el]
  /\ LET doc == RemoveAttribute([attributes |-> attributes, records |-> mutationRecords],
                                el, name)
     IN /\ attributes' = doc.attributes
        /\ mutationRecords' = doc.records
  /\ touched' = [touched EXCEPT ![el] = @ \ {name}]
  /\ guardStep' = "remove"
  /\ callbacks' = 0
  /\ UNCHANGED observers

\* the browser delivers the queued records: the callback runs on the batch
DeliverRecords ==
  /\ observers # {}
  /\ mutationRecords # <<>>
  /\ callbacks < MaxCallbacks
  /\ LET doc == ObserverCallback(mutationRecords,
                                 [attributes |-> attributes, records |-> <<>>])
     IN /\ attributes' = doc.attributes
        /\ mutationRecords' = doc.records
  /\ guardStep' = "deliver"
  /\ callbacks' = callbacks + 1
  /\ UNCHANGED <<observers, touched>>

GuardInit ==
  /\ OthersIdle
  /\ openai = HostWith(NoGlobals, Methods)
  /\ fnCall = "none"
  /\ fnResult = "none"

GuardNext ==
  /\ \/ GuardObserve
     \/ GuardDisconnect
     \/ \E el \in Elements, name \in AttrNames : ExternalSetAttribute(el, name)
     \/ \E el \in Elements, name \in AttrNames : ExternalRemoveAttribute(el, name)
     \/ DeliverRecords
  /\ UNCHANGED <<openai, urlVars, bridgeVars, widgetVars, pureVars, nested, baseUrl,
                 location, historyReplaceState, historyPushState, windowFetch, boots,
                 installs, clickListeners, nativeCalls, lastClick, bootStep>>

SpecGuard == GuardInit /\ [][GuardNext]_vars

\* C25 - root-element attribute guard: while the observer is connected, an
\* attribute other than the hydration marker that a script added to or
\* changed on the root element is gone once the queued records have been
\* delivered; the hydration marker set on the root element stays; attributes
\* set on another element stay.
C25_GuardStripsRootAttributes ==
  observers # {} =>
    /\ mutationRecords = <<>> =>
          \A name \in touched[RootElement] \ {HydrationMarker} :
            name \notin attributes[RootElement]
    /\ HydrationMarker \in touched[RootElement]
          => HydrationMarker \in attributes[RootElement]
    /\ \A el \in Elements \ {RootElement} : touched[el] \subseteq attributes[el]

\* scripts set class and the marker on the root and class on the body; after
\* the deliveries the class is gone from the root only
C25_Witness ==
  /\ observers # {} /\ mutationRecords = <<>> /\ guardStep = "deliver"
  /\ touched[RootElement] = AttrNames
  /\ attributes[RootElement] = {HydrationMarker}
  /\ "class" \in touched["body"] /\ "class" \in attributes["body"]

\* C37 - the attribute guard terminates: after a script's mutation of an
\* attribute the observer callback runs at most twice, the second time on
\* the records of its own removeAttribute calls, which remove nothing; then
\* no record is queued and the observer is quiescent until a script acts
\* again.
C37_GuardTerminates ==
  /\ callbacks <= 2
  /\ callbacks = 2 => mutationRecords = <<>>

\* the second callback in a row has run, on the record of the guard's own
\* removal of class from the root, and left nothing queued
C37_Witness ==
  /\ observers # {} /\ guardStep = "deliver" /\ callbacks = 2
  /\ "class" \in touched[RootElement] /\ "class" \notin attributes[RootElement]
  /\ mutationRecords = <<>>

====
